---------------------------- MODULE Spec2Model ----------------------------
(***************************************************************************)
(* MapApiManager: location search with an in-memory cache and an India     *)
(* fallback gazetteer, simulated nearby places, and directions with an     *)
(* offline estimate.                                                       *)
(*                                                                         *)
(* JavaScript strings are tuples of one-character strings, so that         *)
(* toLowerCase, trim, includes and split are computed character by         *)
(* character.  Coordinates are integers in units of 0.0001 degree.  Times  *)
(* are integers in milliseconds.                                           *)
(***************************************************************************)
EXTENDS Integers, Sequences, FiniteSets, TLC

(***************************************************************************)
(* String primitives                                                       *)
(***************************************************************************)
UpperLetters == <<"A","B","C","D","E","F","G","H","I","J","K","L","M",
                  "N","O","P","Q","R","S","T","U","V","W","X","Y","Z">>

LowerLetters == <<"a","b","c","d","e","f","g","h","i","j","k","l","m",
                  "n","o","p","q","r","s","t","u","v","w","x","y","z">>

WhiteSpace == {" ", "\t", "\n"}

LowerChar(ch) ==
    IF \E i \in 1..26 : UpperLetters[i] = ch
    THEN LowerLetters[CHOOSE i \in 1..26 : UpperLetters[i] = ch]
    ELSE ch

UpperChar(ch) ==
    IF \E i \in 1..26 : LowerLetters[i] = ch
    THEN UpperLetters[CHOOSE i \in 1..26 : LowerLetters[i] = ch]
    ELSE ch

toLowerCase(s) == [i \in 1..Len(s) |-> LowerChar(s[i])]

\* String.prototype.trim: drop leading and trailing white space.
trim(s) ==
    LET keep == {i \in 1..Len(s) : s[i] \notin WhiteSpace}
    IN  IF keep = {} THEN <<>>
        ELSE LET lo == CHOOSE i \in keep : \A j \in keep : i <= j
                 hi == CHOOSE i \in keep : \A j \in keep : j <= i
             IN  SubSeq(s, lo, hi)

\* String.prototype.includes
includes(s, sub) ==
    \E i \in 0..(Len(s) - Len(sub)) : SubSeq(s, i + 1, i + Len(sub)) = sub

\* String.prototype.split(','): the pieces between the commas.
split(s) ==
    LET commas == {i \in 1..Len(s) : s[i] = ","}
        cuts   == {0} \cup commas \cup {Len(s) + 1}
        nth[k \in 1..Cardinality(cuts)] ==
            IF k = 1 THEN 0
            ELSE CHOOSE i \in cuts : /\ i > nth[k - 1]
                                     /\ \A j \in cuts : j > nth[k - 1] => i <= j
    IN  [k \in 1..(Cardinality(cuts) - 1) |-> SubSeq(s, nth[k] + 1, nth[k + 1] - 1)]

\* Faulty variant: nothing is cut off.
sliceAll(seq, n) == seq

slice(seq, n) == SubSeq(seq, 1, IF Len(seq) < n THEN Len(seq) ELSE n)

\* An absent (undefined) string: a tuple no character string equals.
Undefined == <<"undefined">>

\* NaN is an integer no coordinate or quantity of the model takes.
NaN == 0 - 999999999

\* Truthiness of an optional string: undefined and '' are falsy.
Truthy(v) == v # Undefined /\ v # <<>>

capitalize(str) ==
    IF Len(str) = 0 THEN str ELSE <<UpperChar(str[1])>> \o SubSeq(str, 2, Len(str))

(***************************************************************************)
(* The search cache and the region                                         *)
(***************************************************************************)
CacheTTL      == 300000
SearchTimeout == 2000
RouteTimeout  == 4000
TopResults    == 8

indiaBounds == [north |-> 376000, south |-> 60000, east |-> 974000, west |-> 681000]

\* Every comparison with NaN is false.
isLocationInIndia(lat, lng) ==
    /\ lat # NaN /\ lng # NaN
    /\ lat >= indiaBounds.south /\ lat <= indiaBounds.north
    /\ lng >= indiaBounds.west  /\ lng <= indiaBounds.east

\* Faulty variant: the key is lower-cased but not trimmed.
cacheKeyUntrimmed(query) == toLowerCase(query)

cacheKeyOf(query) == trim(toLowerCase(query))

indianCities == <<<<"d","e","l","h","i">>, <<"m","u","m","b","a","i">>, <<"c","h","e","n","n","a","i">>, <<"k","o","l","k","a","t","a">>, <<"b","a","n","g","a","l","o","r","e">>,
                  <<"h","y","d","e","r","a","b","a","d">>, <<"p","u","n","e">>, <<"a","h","m","e","d","a","b","a","d">>, <<"j","a","i","p","u","r">>, <<"l","u","c","k","n","o","w">>,
                  <<"b","e","n","g","a","l","u","r","u">>, <<"g","u","r","g","a","o","n">>, <<"n","o","i","d","a">>, <<"k","o","c","h","i">>, <<"g","o","a">>,
                  <<"c","h","a","n","d","i","g","a","r","h">>, <<"i","n","d","o","r","e">>, <<"b","h","o","p","a","l">>>>

\* Faulty variant: short queries are biased too.
addIndiaBiasAnyLength(query) ==
    LET lowerQuery   == toLowerCase(query)
        isIndianCity == \E i \in 1..Len(indianCities) : includes(lowerQuery, indianCities[i])
    IN  IF ~isIndianCity /\ ~includes(lowerQuery, <<"i","n","d","i","a">>)
        THEN query \o <<","," ","I","n","d","i","a">>
        ELSE query

addIndiaBias(query) ==
    LET lowerQuery   == toLowerCase(query)
        isIndianCity == \E i \in 1..Len(indianCities) : includes(lowerQuery, indianCities[i])
    IN  IF ~isIndianCity /\ ~includes(lowerQuery, <<"i","n","d","i","a">>) /\ Len(query) > 2
        THEN query \o <<","," ","I","n","d","i","a">>
        ELSE query

(***************************************************************************)
(* The fallback gazetteer                                                  *)
(***************************************************************************)
City(name, lat, lng, description) ==
    [name |-> name, lat |-> lat, lng |-> lng, type |-> <<"c","i","t","y">>, description |-> description]

majorIndianCities == <<
    City(<<"D","e","l","h","i",","," ","I","n","d","i","a">>,     286139, 772090, <<"C","a","p","i","t","a","l"," ","o","f"," ","I","n","d","i","a">>),
    City(<<"M","u","m","b","a","i",","," ","I","n","d","i","a">>,    190760, 728777, <<"F","i","n","a","n","c","i","a","l"," ","c","a","p","i","t","a","l"," ","o","f"," ","I","n","d","i","a">>),
    City(<<"B","e","n","g","a","l","u","r","u",","," ","I","n","d","i","a">>, 129716, 775946, <<"S","i","l","i","c","o","n"," ","V","a","l","l","e","y"," ","o","f"," ","I","n","d","i","a">>),
    City(<<"C","h","e","n","n","a","i",","," ","I","n","d","i","a">>,   130827, 802707, <<"C","a","p","i","t","a","l"," ","o","f"," ","T","a","m","i","l"," ","N","a","d","u">>),
    City(<<"K","o","l","k","a","t","a",","," ","I","n","d","i","a">>,   225726, 883639, <<"C","u","l","t","u","r","a","l"," ","c","a","p","i","t","a","l"," ","o","f"," ","I","n","d","i","a">>),
    City(<<"H","y","d","e","r","a","b","a","d",","," ","I","n","d","i","a">>, 173850, 784867, <<"C","i","t","y"," ","o","f"," ","P","e","a","r","l","s">>),
    City(<<"P","u","n","e",","," ","I","n","d","i","a">>,      185204, 738567, <<"O","x","f","o","r","d"," ","o","f"," ","t","h","e"," ","E","a","s","t">>),
    City(<<"A","h","m","e","d","a","b","a","d",","," ","I","n","d","i","a">>, 230225, 725714, <<"M","a","n","c","h","e","s","t","e","r"," ","o","f"," ","I","n","d","i","a">>),
    City(<<"J","a","i","p","u","r",","," ","I","n","d","i","a">>,    269124, 757873, <<"P","i","n","k"," ","C","i","t","y"," ","o","f"," ","I","n","d","i","a">>),
    City(<<"L","u","c","k","n","o","w",","," ","I","n","d","i","a">>,   268467, 809462, <<"C","i","t","y"," ","o","f"," ","N","a","w","a","b","s">>),
    City(<<"K","o","c","h","i",","," ","I","n","d","i","a">>,      99312, 762673, <<"Q","u","e","e","n"," ","o","f"," ","A","r","a","b","i","a","n"," ","S","e","a">>),
    City(<<"G","o","a",","," ","I","n","d","i","a">>,       152993, 741240, <<"B","e","a","c","h"," ","p","a","r","a","d","i","s","e">>) >>

\* Array.prototype.filter over the indices of a sequence, in order.
RECURSIVE FilterIdx(_, _, _)
FilterIdx(seq, keep, i) ==
    IF i > Len(seq) THEN <<>>
    ELSE (IF i \in keep THEN <<seq[i]>> ELSE <<>>) \o FilterIdx(seq, keep, i + 1)

\* Faulty variant: the matches are returned in list order, names and
\* descriptions alike.
getIndiaFallbackLocationsListOrder(query) ==
    LET searchTerm == trim(toLowerCase(query))
        matchIdx   == {i \in 1..Len(majorIndianCities) :
                          \/ includes(toLowerCase(majorIndianCities[i].name), searchTerm)
                          \/ includes(toLowerCase(majorIndianCities[i].description), searchTerm)}
        allMatches == FilterIdx(majorIndianCities, matchIdx, 1)
    IN  IF searchTerm = <<>> THEN slice(majorIndianCities, 8)
        ELSE IF Len(allMatches) > 0 THEN slice(allMatches, 8)
        ELSE slice(majorIndianCities, 4)

\* Faulty variant: no early return for an empty search term, whose default is
\* the last-resort one.
getIndiaFallbackLocationsEmptyFour(query) ==
    LET searchTerm == trim(toLowerCase(query))
        all        == 1..Len(majorIndianCities)
        exactIdx   == {i \in all : includes(toLowerCase(majorIndianCities[i].name), searchTerm)}
        partialIdx == {i \in all : /\ includes(toLowerCase(majorIndianCities[i].description), searchTerm)
                                   /\ i \notin exactIdx}
        allMatches == FilterIdx(majorIndianCities, exactIdx, 1)
                      \o FilterIdx(majorIndianCities, partialIdx, 1)
    IN  IF searchTerm # <<>> /\ Len(allMatches) > 0 THEN slice(allMatches, 8)
        ELSE slice(majorIndianCities, 4)

\* Faulty variant: no last-resort default when nothing matches.
getIndiaFallbackLocationsNoDefault(query) ==
    LET searchTerm == trim(toLowerCase(query))
        all        == 1..Len(majorIndianCities)
        exactIdx   == {i \in all : includes(toLowerCase(majorIndianCities[i].name), searchTerm)}
        partialIdx == {i \in all : /\ includes(toLowerCase(majorIndianCities[i].description), searchTerm)
                                   /\ i \notin exactIdx}
        allMatches == FilterIdx(majorIndianCities, exactIdx, 1)
                      \o FilterIdx(majorIndianCities, partialIdx, 1)
    IN  IF searchTerm = <<>> THEN slice(majorIndianCities, 8)
        ELSE slice(allMatches, 8)

getIndiaFallbackLocations(query) ==
    LET searchTerm == trim(toLowerCase(query))
        all        == 1..Len(majorIndianCities)
        exactIdx   == {i \in all : includes(toLowerCase(majorIndianCities[i].name), searchTerm)}
        partialIdx == {i \in all : /\ includes(toLowerCase(majorIndianCities[i].description), searchTerm)
                                   /\ i \notin exactIdx}
        exactMatches   == FilterIdx(majorIndianCities, exactIdx, 1)
        partialMatches == FilterIdx(majorIndianCities, partialIdx, 1)
        allMatches     == exactMatches \o partialMatches
    IN  IF searchTerm = <<>> THEN slice(majorIndianCities, 8)
        ELSE IF Len(allMatches) > 0 THEN slice(allMatches, 8)
        ELSE slice(majorIndianCities, 4)

(***************************************************************************)
(* Mapping a geocoder payload to places                                    *)
(***************************************************************************)
Digits == <<"0","1","2","3","4","5","6","7","8","9">>

IsDigit(ch) == \E d \in 1..10 : Digits[d] = ch

DigitVal(ch) == (CHOOSE d \in 1..10 : Digits[d] = ch) - 1

\* Number of consecutive digits of s from position from.
DigitRun(s, from) ==
    CHOOSE n \in 0..Len(s) :
        /\ from + n - 1 <= Len(s)
        /\ \A i \in from..(from + n - 1) : IsDigit(s[i])
        /\ (from + n > Len(s) \/ ~IsDigit(s[from + n]))

RECURSIVE DigitsValue(_, _, _)
DigitsValue(s, from, n) ==
    IF n = 0 THEN 0
    ELSE DigitsValue(s, from, n - 1) * 10 + DigitVal(s[from + n - 1])

Pow10(k) == CASE k = 0 -> 1 [] k = 1 -> 10 [] k = 2 -> 100 [] k = 3 -> 1000 [] OTHER -> 10000

\* parseFloat: the longest numeric prefix [sign] digits [. digits] after leading
\* white space, NaN when there is none (and for undefined).  The value is kept
\* to four decimals.
parseFloat(v) ==
    IF v = Undefined THEN NaN
    ELSE
    LET lead   == {i \in 1..Len(v) : \A j \in 1..i : v[j] \in WhiteSpace}
        s      == SubSeq(v, Cardinality(lead) + 1, Len(v))
        signed == Len(s) > 0 /\ s[1] \in {"-", "+"}
        neg    == Len(s) > 0 /\ s[1] = "-"
        b      == IF signed THEN 2 ELSE 1
        intLen == DigitRun(s, b)
        hasDot == b + intLen <= Len(s) /\ s[b + intLen] = "."
        frLen  == IF hasDot THEN DigitRun(s, b + intLen + 1) ELSE 0
        used   == IF frLen > 4 THEN 4 ELSE frLen
        mag    == DigitsValue(s, b, intLen) * 10000
                  + DigitsValue(s, b + intLen + 1, used) * Pow10(4 - used)
    IN  IF intLen = 0 /\ frLen = 0 THEN NaN
        ELSE IF neg THEN 0 - mag ELSE mag

cleanName(displayName) ==
    LET parts == split(displayName)
    IN  IF Len(parts) > 3
        THEN trim(parts[1]) \o <<","," ">> \o trim(parts[Len(parts) - 1])
        ELSE displayName

\* "*" stands for the bullet U+2022 of the source.  An item without an address
\* object is an item whose address has neither city nor state: both take the
\* display_name branch.
generateDescription(item) ==
    LET type    == IF Truthy(item.type) THEN item.type
                   ELSE IF Truthy(item.class) THEN item.class ELSE <<"l","o","c","a","t","i","o","n">>
        address == item.address
        parts   == split(item.display_name)
    IN  IF Truthy(address.city) /\ Truthy(address.state)
        THEN capitalize(type) \o <<" ","*"," ">> \o address.city \o <<","," ">> \o address.state
        ELSE IF Truthy(address.state)
        THEN capitalize(type) \o <<" ","*"," ">> \o address.state
        ELSE IF Len(parts) >= 2
        THEN capitalize(type) \o <<" ","*"," ">> \o trim(parts[Len(parts) - 1])
        ELSE capitalize(type) \o <<" ","*"," ","A","r","e","a">>

\* The callback of data.map: one payload item to a place tagged isIndian.
mapItem(item) ==
    [name        |-> cleanName(item.display_name),
     lat         |-> parseFloat(item.lat),
     lng         |-> parseFloat(item.lon),
     type        |-> IF Truthy(item.type) THEN item.type
                     ELSE IF Truthy(item.class) THEN item.class ELSE <<"p","l","a","c","e">>,
     category    |-> item.class,
     description |-> generateDescription(item),
     isIndian    |-> isLocationInIndia(parseFloat(item.lat), parseFloat(item.lon))]

\* The callback throws a TypeError on an item without display_name: cleanName
\* calls split on undefined.
mapItemThrows(item) == item.display_name = Undefined

compareIndian(a, b) ==
    IF a.isIndian /\ ~b.isIndian THEN -1
    ELSE IF ~a.isIndian /\ b.isIndian THEN 1
    ELSE 0

\* Faulty variant: an unstable sort, which also moves an element past the
\* elements that compare equal to it.
RECURSIVE insertSortedUnstable(_, _)
insertSortedUnstable(sorted, x) ==
    IF sorted = <<>> THEN <<x>>
    ELSE IF compareIndian(sorted[Len(sorted)], x) >= 0
         THEN insertSortedUnstable(SubSeq(sorted, 1, Len(sorted) - 1), x)
              \o <<sorted[Len(sorted)]>>
         ELSE sorted \o <<x>>

\* Array.prototype.sort is stable: an element moves left only past elements
\* that compare greater than it.
RECURSIVE insertSorted(_, _)
insertSorted(sorted, x) ==
    IF sorted = <<>> THEN <<x>>
    ELSE IF compareIndian(sorted[Len(sorted)], x) > 0
         THEN insertSorted(SubSeq(sorted, 1, Len(sorted) - 1), x) \o <<sorted[Len(sorted)]>>
         ELSE sorted \o <<x>>

RECURSIVE sortResults(_)
sortResults(results) ==
    IF results = <<>> THEN <<>>
    ELSE insertSorted(sortResults(SubSeq(results, 1, Len(results) - 1)), results[Len(results)])

stripIsIndian(item) ==
    [name |-> item.name, lat |-> item.lat, lng |-> item.lng, type |-> item.type,
     category |-> item.category, description |-> item.description]

\* A parsed JSON body: an array of items, some other object, or null.
ArrayBody(items) == [kind |-> "array", items |-> items]
ObjectBody       == [kind |-> "object", items |-> <<>>]
NullBody         == [kind |-> "null", items |-> <<>>]

\* Lines 57-78 of searchLocation on a parsed body that is an array.
finalResultsOf(data) ==
    LET results == [i \in 1..Len(data.items) |-> mapItem(data.items[i])]
        top     == slice(sortResults(results), TopResults)
    IN  [i \in 1..Len(top) |-> stripIsIndian(top[i])]

\* The parsed body makes lines 57-78 throw: data.map is not a function, or the
\* map callback throws.
searchDataThrows(data) ==
    \/ data.kind # "array"
    \/ \E i \in 1..Len(data.items) : mapItemThrows(data.items[i])

(***************************************************************************)
(* Simulated nearby places                                                 *)
(***************************************************************************)
PlaceData(names, descriptions) == [names |-> names, descriptions |-> descriptions]

indiaPlaceKeys == <<<<"r","e","s","t","a","u","r","a","n","t">>, <<"h","o","t","e","l">>, <<"a","t","t","r","a","c","t","i","o","n">>, <<"s","h","o","p","p","i","n","g">>, <<"h","o","s","p","i","t","a","l">>,
                    <<"t","r","a","n","s","p","o","r","t">>, <<"p","a","r","k">>, <<"t","e","m","p","l","e">>, <<"m","a","r","k","e","t">>>>

indiaPlaces == <<
    PlaceData(<<<<"S","a","r","a","v","a","n","a"," ","B","h","a","v","a","n">>, <<"B","i","k","a","n","e","r","v","a","l","a">>, <<"H","a","l","d","i","r","a","m","'","s">>, <<"L","o","c","a","l"," ","D","h","a","b","a">>,
                <<"U","d","i","p","i"," ","R","e","s","t","a","u","r","a","n","t">>, <<"P","a","r","a","d","i","s","e"," ","B","i","r","y","a","n","i">>, <<"K","F","C">>, <<"M","c","D","o","n","a","l","d","'","s">>>>,
              <<<<"S","o","u","t","h"," ","I","n","d","i","a","n"," ","R","e","s","t","a","u","r","a","n","t">>, <<"N","o","r","t","h"," ","I","n","d","i","a","n"," ","C","u","i","s","i","n","e">>, <<"S","w","e","e","t"," ","S","h","o","p"," ","&"," ","R","e","s","t","a","u","r","a","n","t">>,
                <<"H","i","g","h","w","a","y"," ","D","h","a","b","a">>, <<"V","e","g","e","t","a","r","i","a","n"," ","R","e","s","t","a","u","r","a","n","t">>, <<"H","y","d","e","r","a","b","a","d","i"," ","R","e","s","t","a","u","r","a","n","t">>,
                <<"F","a","s","t"," ","F","o","o","d"," ","C","h","a","i","n">>, <<"A","m","e","r","i","c","a","n"," ","F","a","s","t"," ","F","o","o","d">>>>),
    PlaceData(<<<<"T","a","j"," ","H","o","t","e","l">>, <<"I","T","C"," ","G","r","a","n","d">>, <<"T","h","e"," ","L","e","e","l","a">>, <<"R","a","d","i","s","s","o","n"," ","B","l","u">>, <<"N","o","v","o","t","e","l">>,
                <<"O","Y","O"," ","R","o","o","m","s">>, <<"F","a","b","H","o","t","e","l">>, <<"T","r","e","e","b","o">>>>,
              <<<<"L","u","x","u","r","y"," ","5","-","S","t","a","r"," ","H","o","t","e","l">>, <<"B","u","s","i","n","e","s","s"," ","H","o","t","e","l">>, <<"P","r","e","m","i","u","m"," ","H","o","t","e","l">>,
                <<"I","n","t","e","r","n","a","t","i","o","n","a","l"," ","C","h","a","i","n">>, <<"M","o","d","e","r","n"," ","H","o","t","e","l">>, <<"B","u","d","g","e","t"," ","H","o","t","e","l">>, <<"V","a","l","u","e"," ","H","o","t","e","l">>,
                <<"E","c","o","n","o","m","y"," ","S","t","a","y">>>>),
    PlaceData(<<<<"H","i","s","t","o","r","i","c","a","l"," ","F","o","r","t">>, <<"A","n","c","i","e","n","t"," ","T","e","m","p","l","e">>, <<"C","i","t","y"," ","P","a","l","a","c","e">>, <<"M","u","s","e","u","m">>,
                <<"B","o","t","a","n","i","c","a","l"," ","G","a","r","d","e","n">>, <<"L","a","k","e"," ","V","i","e","w">>, <<"H","e","r","i","t","a","g","e"," ","S","i","t","e">>, <<"P","u","b","l","i","c"," ","S","q","u","a","r","e">>>>,
              <<<<"H","i","s","t","o","r","i","c","a","l"," ","M","o","n","u","m","e","n","t">>, <<"R","e","l","i","g","i","o","u","s"," ","S","i","t","e">>, <<"R","o","y","a","l"," ","P","a","l","a","c","e">>, <<"C","u","l","t","u","r","a","l"," ","M","u","s","e","u","m">>,
                <<"N","a","t","u","r","e"," ","P","a","r","k">>, <<"S","c","e","n","i","c"," ","S","p","o","t">>, <<"U","N","E","S","C","O"," ","H","e","r","i","t","a","g","e">>, <<"P","u","b","l","i","c"," ","G","a","t","h","e","r","i","n","g"," ","P","l","a","c","e">>>>),
    PlaceData(<<<<"D","L","F"," ","M","a","l","l">>, <<"P","h","o","e","n","i","x"," ","M","a","r","k","e","t","c","i","t","y">>, <<"F","o","r","u","m"," ","M","a","l","l">>, <<"L","o","c","a","l"," ","B","a","z","a","a","r">>,
                <<"S","u","p","e","r","m","a","r","k","e","t">>, <<"B","r","a","n","d"," ","S","h","o","w","r","o","o","m">>, <<"S","h","o","p","p","i","n","g"," ","C","o","m","p","l","e","x">>, <<"D","e","p","a","r","t","m","e","n","t"," ","S","t","o","r","e">>>>,
              <<<<"P","r","e","m","i","u","m"," ","S","h","o","p","p","i","n","g"," ","M","a","l","l">>, <<"L","a","r","g","e"," ","R","e","t","a","i","l"," ","C","o","m","p","l","e","x">>, <<"M","o","d","e","r","n"," ","M","a","l","l">>,
                <<"T","r","a","d","i","t","i","o","n","a","l"," ","M","a","r","k","e","t">>, <<"G","r","o","c","e","r","y"," ","S","t","o","r","e">>, <<"B","r","a","n","d"," ","O","u","t","l","e","t">>, <<"S","h","o","p","p","i","n","g"," ","C","e","n","t","e","r">>,
                <<"R","e","t","a","i","l"," ","S","t","o","r","e">>>>),
    PlaceData(<<<<"A","p","o","l","l","o"," ","H","o","s","p","i","t","a","l">>, <<"F","o","r","t","i","s"," ","H","o","s","p","i","t","a","l">>, <<"M","a","x"," ","H","e","a","l","t","h","c","a","r","e">>, <<"A","I","I","M","S">>,
                <<"G","o","v","e","r","n","m","e","n","t"," ","H","o","s","p","i","t","a","l">>, <<"P","r","i","v","a","t","e"," ","C","l","i","n","i","c">>, <<"M","e","d","i","c","a","l"," ","C","e","n","t","e","r">>, <<"N","u","r","s","i","n","g"," ","H","o","m","e">>>>,
              <<<<"M","u","l","t","i","-","s","p","e","c","i","a","l","t","y"," ","H","o","s","p","i","t","a","l">>, <<"S","u","p","e","r","-","s","p","e","c","i","a","l","t","y"," ","H","o","s","p","i","t","a","l">>, <<"H","e","a","l","t","h","c","a","r","e"," ","C","h","a","i","n">>,
                <<"G","o","v","e","r","n","m","e","n","t"," ","H","o","s","p","i","t","a","l">>, <<"P","u","b","l","i","c"," ","H","o","s","p","i","t","a","l">>, <<"P","r","i","v","a","t","e"," ","C","l","i","n","i","c">>,
                <<"M","e","d","i","c","a","l"," ","F","a","c","i","l","i","t","y">>, <<"H","e","a","l","t","h","c","a","r","e"," ","C","e","n","t","e","r">>>>),
    PlaceData(<<<<"M","e","t","r","o"," ","S","t","a","t","i","o","n">>, <<"B","u","s"," ","S","t","a","n","d">>, <<"R","a","i","l","w","a","y"," ","S","t","a","t","i","o","n">>, <<"A","u","t","o"," ","S","t","a","n","d">>,
                <<"T","a","x","i"," ","S","t","a","n","d">>, <<"R","i","c","k","s","h","a","w"," ","S","t","a","n","d">>, <<"P","a","r","k","i","n","g"," ","L","o","t">>, <<"T","r","a","n","s","i","t"," ","H","u","b">>>>,
              <<<<"M","e","t","r","o"," ","R","a","i","l"," ","S","t","a","t","i","o","n">>, <<"B","u","s"," ","T","e","r","m","i","n","a","l">>, <<"I","n","d","i","a","n"," ","R","a","i","l","w","a","y","s"," ","S","t","a","t","i","o","n">>,
                <<"A","u","t","o"," ","R","i","c","k","s","h","a","w"," ","S","t","a","n","d">>, <<"T","a","x","i"," ","P","i","c","k","u","p">>, <<"R","i","c","k","s","h","a","w"," ","S","t","o","p">>, <<"V","e","h","i","c","l","e"," ","P","a","r","k","i","n","g">>,
                <<"T","r","a","n","s","p","o","r","t"," ","C","e","n","t","e","r">>>>),
    PlaceData(<<<<"C","i","t","y"," ","P","a","r","k">>, <<"C","h","i","l","d","r","e","n","'","s"," ","P","a","r","k">>, <<"G","a","r","d","e","n">>, <<"P","u","b","l","i","c"," ","G","r","o","u","n","d">>,
                <<"R","e","c","r","e","a","t","i","o","n"," ","A","r","e","a">>, <<"W","a","l","k","i","n","g"," ","T","r","a","c","k">>, <<"P","l","a","y","g","r","o","u","n","d">>, <<"G","r","e","e","n"," ","S","p","a","c","e">>>>,
              <<<<"P","u","b","l","i","c"," ","P","a","r","k">>, <<"K","i","d","s"," ","P","l","a","y"," ","A","r","e","a">>, <<"B","o","t","a","n","i","c","a","l"," ","G","a","r","d","e","n">>, <<"O","p","e","n"," ","G","r","o","u","n","d">>,
                <<"S","p","o","r","t","s"," ","A","r","e","a">>, <<"J","o","g","g","i","n","g"," ","T","r","a","c","k">>, <<"P","l","a","y"," ","A","r","e","a">>, <<"G","r","e","e","n"," ","Z","o","n","e">>>>),
    PlaceData(<<<<"S","h","i","v","a"," ","T","e","m","p","l","e">>, <<"H","a","n","u","m","a","n"," ","T","e","m","p","l","e">>, <<"K","r","i","s","h","n","a"," ","T","e","m","p","l","e">>, <<"D","u","r","g","a"," ","T","e","m","p","l","e">>,
                <<"G","a","n","e","s","h"," ","T","e","m","p","l","e">>, <<"L","o","c","a","l"," ","T","e","m","p","l","e">>, <<"A","n","c","i","e","n","t"," ","T","e","m","p","l","e">>, <<"I","S","K","C","O","N"," ","T","e","m","p","l","e">>>>,
              <<<<"H","i","n","d","u"," ","T","e","m","p","l","e">>, <<"R","e","l","i","g","i","o","u","s"," ","S","h","r","i","n","e">>, <<"P","l","a","c","e"," ","o","f"," ","W","o","r","s","h","i","p">>, <<"G","o","d","d","e","s","s"," ","T","e","m","p","l","e">>,
                <<"E","l","e","p","h","a","n","t"," ","G","o","d"," ","T","e","m","p","l","e">>, <<"C","o","m","m","u","n","i","t","y"," ","T","e","m","p","l","e">>, <<"H","i","s","t","o","r","i","c","a","l"," ","T","e","m","p","l","e">>,
                <<"S","p","i","r","i","t","u","a","l"," ","C","e","n","t","e","r">>>>),
    PlaceData(<<<<"L","o","c","a","l"," ","M","a","r","k","e","t">>, <<"V","e","g","e","t","a","b","l","e"," ","M","a","r","k","e","t">>, <<"S","t","r","e","e","t"," ","M","a","r","k","e","t">>, <<"F","l","e","a"," ","M","a","r","k","e","t">>,
                <<"W","h","o","l","e","s","a","l","e"," ","M","a","r","k","e","t">>, <<"N","i","g","h","t"," ","M","a","r","k","e","t">>, <<"S","h","o","p","p","i","n","g"," ","S","t","r","e","e","t">>, <<"C","o","m","m","e","r","c","i","a","l"," ","A","r","e","a">>>>,
              <<<<"L","o","c","a","l"," ","B","a","z","a","a","r">>, <<"F","r","e","s","h"," ","P","r","o","d","u","c","e"," ","M","a","r","k","e","t">>, <<"S","t","r","e","e","t"," ","S","h","o","p","p","i","n","g">>, <<"F","l","e","a"," ","M","a","r","k","e","t">>,
                <<"W","h","o","l","e","s","a","l","e"," ","A","r","e","a">>, <<"E","v","e","n","i","n","g"," ","M","a","r","k","e","t">>, <<"S","h","o","p","p","i","n","g"," ","D","i","s","t","r","i","c","t">>, <<"C","o","m","m","e","r","c","i","a","l"," ","Z","o","n","e">>>>) >>

\* Property names every object literal inherits from Object.prototype: a lookup
\* of one of these on indiaPlaces yields an inherited value, which is truthy and
\* has no names or descriptions.
ObjectPrototypeKeys ==
    {<<"c","o","n","s","t","r","u","c","t","o","r">>, <<"t","o","S","t","r","i","n","g">>, <<"t","o","L","o","c","a","l","e","S","t","r","i","n","g">>, <<"v","a","l","u","e","O","f">>, <<"h","a","s","O","w","n","P","r","o","p","e","r","t","y">>,
     <<"i","s","P","r","o","t","o","t","y","p","e","O","f">>, <<"p","r","o","p","e","r","t","y","I","s","E","n","u","m","e","r","a","b","l","e">>, <<"_","_","p","r","o","t","o","_","_">>, <<"_","_","d","e","f","i","n","e","G","e","t","t","e","r","_","_">>,
     <<"_","_","d","e","f","i","n","e","S","e","t","t","e","r","_","_">>, <<"_","_","l","o","o","k","u","p","G","e","t","t","e","r","_","_">>, <<"_","_","l","o","o","k","u","p","S","e","t","t","e","r","_","_">>}

defaultPlaceData == PlaceData(<<<<"L","o","c","a","l"," ","P","l","a","c","e">>>>, <<<<"P","o","i","n","t"," ","o","f"," ","I","n","t","e","r","e","s","t">>>>)

IsPlaceKey(category) == \E k \in 1..Len(indiaPlaceKeys) : indiaPlaceKeys[k] = category

\* Faulty variant: an unknown category borrows the first entry of the table.
placeDataOfFirstEntry(category) ==
    IF IsPlaceKey(category)
    THEN indiaPlaces[CHOOSE k \in 1..Len(indiaPlaceKeys) : indiaPlaceKeys[k] = category]
    ELSE indiaPlaces[1]

\* indiaPlaces[category] || { names: ['Local Place'], descriptions: [...] }
placeDataOf(category) ==
    IF IsPlaceKey(category)
    THEN indiaPlaces[CHOOSE k \in 1..Len(indiaPlaceKeys) : indiaPlaceKeys[k] = category]
    ELSE defaultPlaceData

\* placeData.names is undefined, so reading placeData.names.length throws.
placeDataThrows(category) == ~IsPlaceKey(category) /\ category \in ObjectPrototypeKeys

streets == <<<<"M","G"," ","R","o","a","d">>, <<"B","r","i","g","a","d","e"," ","R","o","a","d">>, <<"C","o","n","n","a","u","g","h","t"," ","P","l","a","c","e">>, <<"P","a","r","k"," ","S","t","r","e","e","t">>,
             <<"C","o","m","m","e","r","c","i","a","l"," ","S","t","r","e","e","t">>, <<"J","u","h","u"," ","B","e","a","c","h">>, <<"M","a","r","i","n","e"," ","D","r","i","v","e">>>>

areas == <<<<"C","i","t","y"," ","C","e","n","t","e","r">>, <<"C","o","m","m","e","r","c","i","a","l"," ","A","r","e","a">>, <<"R","e","s","i","d","e","n","t","i","a","l"," ","A","r","e","a">>, <<"M","a","r","k","e","t"," ","A","r","e","a">>,
           <<"S","u","b","u","r","b","a","n"," ","A","r","e","a">>>>

\* Math.random() is a number in [0, 1), here in thousandths: 0..999.
\* (r - 0.5) * 0.01 degrees, in units of 0.0001 degree
randomOffset(r) == (r - 500) \div 10

\* Math.floor(r * n), as a 1-based index
randomIndex(r, n) == (r * n) \div 1000 + 1

\* parseFloat((r * 2 + 3).toFixed(1)), in tenths
randomRating(r) == (r + 25) \div 50 + 30

generateIndianAddress(r1, r2) ==
    streets[randomIndex(r1, Len(streets))] \o <<","," ">> \o areas[randomIndex(r2, Len(areas))]

NearbySlots == 8

\* The loop of generateIndiaSpecificPlaces; tape holds the five random numbers
\* each slot draws, in the order the source draws them.
generateIndiaSpecificPlaces(lat, lng, category, tape) ==
    LET placeData == placeDataOf(category)
    IN  [s \in 1..NearbySlots |->
           LET i == s - 1
               b == 5 * i
           IN  [name        |-> placeData.names[(i % Len(placeData.names)) + 1],
                lat         |-> lat + randomOffset(tape[b + 1]),
                lng         |-> lng + randomOffset(tape[b + 2]),
                type        |-> category,
                address     |-> generateIndianAddress(tape[b + 3], tape[b + 4]),
                rating      |-> randomRating(tape[b + 5]),
                description |-> placeData.descriptions[(i % Len(placeData.descriptions)) + 1],
                category    |-> category]]

(***************************************************************************)
(* Directions                                                              *)
(***************************************************************************)
RECURSIVE ToDigits(_)
ToDigits(n) == IF n < 10 THEN <<Digits[n + 1]>> ELSE ToDigits(n \div 10) \o <<Digits[(n % 10) + 1]>>

\* Number.prototype.toString / toFixed(1) of a value given in tenths.
numberToString(n) == IF n = NaN THEN <<"N","a","N">> ELSE IF n < 0 THEN <<"-">> \o ToDigits(0 - n) ELSE ToDigits(n)

toFixed1(tenths) ==
    IF tenths = NaN THEN <<"N","a","N">>
    ELSE ToDigits(tenths \div 10) \o <<".">> \o <<Digits[(tenths % 10) + 1]>>

Abs(x) == IF x < 0 THEN 0 - x ELSE x

EarthRadiusKm == 6371

\* Metres of great circle per degree of arc: EarthRadiusKm * 1000 * PI / 180,
\* with PI / 180 = 0.0174533.
MetresPerDegree == (EarthRadiusKm * 174533) \div 10000

\* calculateHaversineDistance, in metres.  Along a meridian (equal longitudes)
\* and along the equator the haversine angle c is the difference of the
\* coordinates in radians, so the distance is R * |delta| * PI / 180.  The model
\* draws its point pairs from these two families only.
calculateHaversineDistance(lat1, lon1, lat2, lon2) ==
    LET delta == IF lon1 = lon2 THEN Abs(lat2 - lat1) ELSE Abs(lon2 - lon1)
    IN  (delta \div 10000) * MetresPerDegree + ((delta % 10000) * MetresPerDegree) \div 10000

speeds == [driving |-> 40, walking |-> 4, cycling |-> 12]

speedOf(mode) ==
    CASE mode = <<"d","r","i","v","i","n","g">> -> speeds.driving
      [] mode = <<"w","a","l","k","i","n","g">> -> speeds.walking
      [] mode = <<"c","y","c","l","i","n","g">> -> speeds.cycling
      [] OTHER -> NaN

\* Faulty variant: no traffic buffer for driving.
calculateIndiaTravelTimeNoTraffic(distance, mode) ==
    LET num == distance * 6 * 10
        den == speedOf(mode) * 1000
    IN  IF speedOf(mode) = NaN THEN NaN ELSE (2 * num + den) \div (2 * den)

\* Math.round((distance / speed) * 60 * trafficFactor); the traffic factor is
\* in tenths, the distance in metres.  A mode without a speed gives NaN.
calculateIndiaTravelTime(distance, mode) ==
    LET trafficFactor == IF mode = <<"d","r","i","v","i","n","g">> THEN 13 ELSE 10
        num == distance * 6 * trafficFactor
        den == speedOf(mode) * 1000
    IN  IF speedOf(mode) = NaN THEN NaN ELSE (2 * num + den) \div (2 * den)

LineString(coordinates) == [type |-> <<"L","i","n","e","S","t","r","i","n","g">>, coordinates |-> coordinates]

Point(lat, lng) == [lat |-> lat, lng |-> lng]

calculateOfflineDirections(start, end, mode, r1, r2) ==
    LET distance == calculateHaversineDistance(start.lat, start.lng, end.lat, end.lng)
        duration == calculateIndiaTravelTime(distance, mode)
        midPoint == [lat |-> (start.lat + end.lat) \div 2 + randomOffset(r1),
                     lng |-> (start.lng + end.lng) \div 2 + randomOffset(r2)]
    IN  [distance |-> toFixed1((distance + 50) \div 100) \o <<" ","k","m">>,
         duration |-> numberToString(duration) \o <<" ","m","i","n">>,
         geometry |-> LineString(<< <<start.lng, start.lat>>,
                                    <<midPoint.lng, midPoint.lat>>,
                                    <<end.lng, end.lat>> >>),
         mode     |-> mode]

\* A parsed routing body: an object with or without a routes array, or null.
RouteBody(routes)  == [kind |-> "object", hasRoutes |-> TRUE, routes |-> routes]
NoRoutesBody       == [kind |-> "object", hasRoutes |-> FALSE, routes |-> <<>>]
NullRouteBody      == [kind |-> "null", hasRoutes |-> FALSE, routes |-> <<>>]

\* data.routes throws on a null body.
routeDataThrows(data) == data.kind = "null"

\* Lines 107-113 of getDirections: the estimate built from data.routes[0].
providerEstimate(data, mode) ==
    [distance |-> toFixed1((data.routes[1].distance + 50) \div 100) \o <<" ","k","m">>,
     duration |-> numberToString((data.routes[1].duration + 30) \div 60) \o <<" ","m","i","n">>,
     geometry |-> data.routes[1].geometry,
     mode     |-> mode]

(***************************************************************************)
(* Inputs                                                                  *)
(***************************************************************************)
\* The invocations that can be in flight together.
Calls == {1, 2}

\* The instants the clock visits: the start, the deadline of a search made at
\* the start, and the two instants around the expiry of an entry stored at the
\* start.
TimePoints == {0, SearchTimeout, CacheTTL - 1, CacheTTL}

RouteTimePoints == {0, SearchTimeout, RouteTimeout}

Queries == {<<"G","o","a">>, <<" ","G","O","A"," ">>, <<"p","e","a","r","l","s">>}

NoAddress == [city |-> Undefined, state |-> Undefined]

Item(display_name, lat, lon, type, class, address) ==
    [display_name |-> display_name, lat |-> lat, lon |-> lon, type |-> type,
     class |-> class, address |-> address]

ItemGoa ==
    Item(<<"G","o","a",","," ","I","n","d","i","a">>, <<"1","5",".","2","9","9","3">>, <<"7","4",".","1","2","4","0">>, <<"s","t","a","t","e">>, <<"b","o","u","n","d","a","r","y">>,
         [city |-> Undefined, state |-> <<"G","o","a">>])

ItemGoaTexas ==
    Item(<<"G","o","a",","," ","B","e","e"," ","C","o","u","n","t","y",","," ","T","e","x","a","s",","," ","U","n","i","t","e","d"," ","S","t","a","t","e","s">>, <<"2","8",".","4","3","0","0">>, <<"-","9","7",".","7","5","0","0">>,
         Undefined, <<"p","l","a","c","e">>, NoAddress)

ItemPearlMarket ==
    Item(<<"P","e","a","r","l"," ","M","a","r","k","e","t",","," ","C","h","a","r","m","i","n","a","r",","," ","H","y","d","e","r","a","b","a","d",","," ","T","e","l","a","n","g","a","n","a",","," ","I","n","d","i","a">>, <<"1","7",".","3","6","1","6">>, <<"7","8",".","4","7","4","7">>,
         <<"m","a","r","k","e","t","p","l","a","c","e">>, <<"a","m","e","n","i","t","y">>, [city |-> <<"H","y","d","e","r","a","b","a","d">>, state |-> <<"T","e","l","a","n","g","a","n","a">>])

ItemPearlsLagos ==
    Item(<<"P","e","a","r","l","s",","," ","L","a","g","o","s">>, <<"6",".","4","5","0","0">>, <<"3",".","3","9","0","0">>, <<>>, Undefined, NoAddress)

ItemNoName ==
    Item(Undefined, <<"1","5",".","0">>, <<"7","4",".","0">>, <<"v","i","l","l","a","g","e">>, <<"p","l","a","c","e">>, NoAddress)

\* Parsed bodies the geocoder can answer with.
SearchBodies ==
    {ArrayBody(<<>>),
     ArrayBody(<<ItemGoa>>),
     ArrayBody(<<ItemGoaTexas, ItemPearlMarket, ItemPearlsLagos>>),
     ArrayBody(<<ItemGoa, ItemNoName>>),
     ObjectBody,
     NullBody}

\* Candidate lists for the ranking: every pattern of in-region and out-of-region
\* candidates of up to MaxItems items.  The candidate at position i is named
\* "P<i>"; its coordinates lie on or just outside the border of the region.
MaxItems == 9

InCoords == << <<<<"6",".","0">>, <<"6","8",".","1">>>>, <<<<"3","7",".","6">>, <<"9","7",".","4">>>>,
               <<<<"6",".","0">>, <<"9","7",".","4">>>>, <<<<"2","0",".","5","9","3","7">>, <<"7","8",".","9","6","2","9">>>> >>

OutCoords == << <<<<"5",".","9","9","9","9">>, <<"6","8",".","1">>>>, <<<<"3","7",".","6","0","0","1">>, <<"9","7",".","4">>>>,
                <<<<"2","0",".","5","9","3","7">>, <<"9","7",".","4","0","0","1">>>>, <<<<"2","0",".","5","9","3","7">>, <<"6","8",".","0","9","9","9">>>> >>

RankItem(i, inside) ==
    LET at == IF inside THEN InCoords[(i % 4) + 1] ELSE OutCoords[(i % 4) + 1]
    IN  Item(<<"P">> \o ToDigits(i), at[1], at[2], <<"c","i","t","y">>, <<"p","l","a","c","e">>, NoAddress)

RankBodies ==
    UNION {{ArrayBody([i \in 1..n |-> RankItem(i, pattern[i])]) : pattern \in [1..n -> BOOLEAN]}
           : n \in 0..MaxItems}

Cities == {Point(0, 0), Point(0, 10000), Point(129716, 772090), Point(286139, 772090)}

\* Pairs of points on one meridian or on the equator.
RoutePairs ==
    {pr \in Cities \X Cities :
        pr[1].lng = pr[2].lng \/ (pr[1].lat = 0 /\ pr[2].lat = 0)}

Modes == {<<"d","r","i","v","i","n","g">>, <<"w","a","l","k","i","n","g">>, <<"c","y","c","l","i","n","g">>, <<"f","l","y","i","n","g">>}

OsrmGeometry == LineString(<< <<0, 0>>, <<5000, 10>>, <<10000, 0>> >>)

RouteObject(distance, duration) ==
    [distance |-> distance, duration |-> duration, geometry |-> OsrmGeometry]

\* Parsed bodies the routing service can answer with.
RouteBodies ==
    {RouteBody(<<RouteObject(111950, 5400)>>),
     RouteBody(<<RouteObject(1740360, 93630), RouteObject(1800000, 99000)>>),
     RouteBody(<<>>),
     NoRoutesBody,
     NullRouteBody}

RandomSamples == {0, 500, 999}

Categories == {<<"r","e","s","t","a","u","r","a","n","t">>, <<"t","e","m","p","l","e">>, <<"c","a","f","e">>, <<>>, <<"c","o","n","s","t","r","u","c","t","o","r">>}

\* The random numbers one generateIndiaSpecificPlaces call draws.
RandomTapes ==
    {[i \in 1..(5 * NearbySlots) |-> 0],
     [i \in 1..(5 * NearbySlots) |-> 999],
     [i \in 1..(5 * NearbySlots) |-> IF i % 2 = 0 THEN 500 ELSE 999]}

\* A file an earlier version of the extension left in the cache directory.
InitialFiles == {"search_R29h.json"}

\* The pure functions on the inputs above, evaluated once.
cacheKeyTable == [q \in Queries |-> cacheKeyOf(q)]
biasTable     == [q \in Queries |-> addIndiaBias(q)]
fallbackTable == [q \in Queries |-> getIndiaFallbackLocations(q)]
throwsTable   == [d \in SearchBodies |-> searchDataThrows(d)]
resultsTable  == [d \in SearchBodies |-> IF searchDataThrows(d) THEN <<>> ELSE finalResultsOf(d)]

KeyFor(q)      == IF q \in Queries THEN cacheKeyTable[q] ELSE cacheKeyOf(q)
BiasFor(q)     == IF q \in Queries THEN biasTable[q] ELSE addIndiaBias(q)
FallbackFor(q) == IF q \in Queries THEN fallbackTable[q] ELSE getIndiaFallbackLocations(q)
ThrowsFor(d)   == IF d \in SearchBodies THEN throwsTable[d] ELSE searchDataThrows(d)
ResultsFor(d)  == IF d \in SearchBodies THEN resultsTable[d] ELSE finalResultsOf(d)

(***************************************************************************)
(* State                                                                   *)
(***************************************************************************)
VARIABLES
    searchCache,   \* searchCache: key -> [data, timestamp]
    cacheFiles,    \* the files of the map-cache directory
    offlineMode,   \* the offlineMap.offlineMode setting
    now,           \* Date.now()
    calls          \* the invocations of searchLocation, getNearbyPlaces, getDirections

vars == <<searchCache, cacheFiles, offlineMode, now, calls>>

NoRoute == [distance |-> <<>>, duration |-> <<>>, geometry |-> LineString(<<>>), mode |-> <<>>]

\* An invocation: op is the method, pc where it stands ("fetch": awaiting
\* fetch, "json": awaiting response.json(), "returned": the promise resolved,
\* "raised": the promise rejected), value what it resolved with ("places",
\* "route" or "null").  timer is the pending setTimeout and deadline the
\* instant it fires; httpOk is response.ok (of a search: while the body is
\* read) and data the parsed body; requests
\* counts the outbound requests, request is the q parameter sent, cause names
\* the path taken.
NoBody == [kind |-> "none", items |-> <<>>]

IdleCall ==
    [op |-> "none", pc |-> "idle", query |-> <<>>, from |-> Point(0, 0), to |-> Point(0, 0),
     mode |-> <<>>, category |-> <<>>, timer |-> FALSE, deadline |-> 0, httpOk |-> TRUE,
     data |-> NoBody, cause |-> "none", value |-> "none", places |-> <<>>, route |-> NoRoute,
     requests |-> 0, request |-> <<>>]

EmptyCache == [k \in {} |-> 0]

Init ==
    /\ searchCache = EmptyCache
    /\ cacheFiles = InitialFiles
    /\ offlineMode \in BOOLEAN
    /\ now = 0
    /\ calls = [c \in Calls |-> IdleCall]

\* Faulty variant: an entry already present is kept, the new one dropped.
CacheSetKeepFirst(cache, key, entry) ==
    IF key \in DOMAIN cache THEN cache
    ELSE [k \in DOMAIN cache \cup {key} |-> IF k = key THEN entry ELSE cache[k]]

\* Map.prototype.set
CacheSet(cache, key, entry) ==
    [k \in DOMAIN cache \cup {key} |-> IF k = key THEN entry ELSE cache[k]]

\* Faulty variant: the age is compared with the lifetime in seconds.
CacheHitSeconds(key) ==
    /\ key \in DOMAIN searchCache
    /\ now - searchCache[key].timestamp < CacheTTL \div 1000

\* Faulty variant: an entry of age exactly 300000 is still served.
CacheHitInclusive(key) ==
    /\ key \in DOMAIN searchCache
    /\ now - searchCache[key].timestamp <= CacheTTL

\* cached && Date.now() - cached.timestamp < 300000
CacheHit(key) ==
    /\ key \in DOMAIN searchCache
    /\ now - searchCache[key].timestamp < CacheTTL

(***************************************************************************)
(* searchLocation                                                          *)
(***************************************************************************)
SearchCall(c, query) ==
    /\ calls[c].pc = "idle"
    /\ LET cacheKey == KeyFor(query)
           entered  == [IdleCall EXCEPT !.op = "search", !.query = query]
       IN  IF CacheHit(cacheKey)
           THEN calls' = [calls EXCEPT ![c] =
                    [entered EXCEPT !.pc = "returned", !.cause = "hit", !.value = "places",
                                    !.places = searchCache[cacheKey].data]]
           ELSE calls' = [calls EXCEPT ![c] =
                    [entered EXCEPT !.pc = "fetch", !.timer = TRUE,
                                    !.deadline = now + SearchTimeout, !.requests = 1,
                                    !.request = BiasFor(query)]]
    /\ UNCHANGED <<searchCache, cacheFiles, offlineMode, now>>

\* catch (error): return this.getIndiaFallbackLocations(query)
SearchCatch(c, cause) ==
    [calls EXCEPT ![c] =
        [@ EXCEPT !.pc = "returned", !.cause = cause, !.value = "places",
                  !.timer = FALSE, !.deadline = 0, !.httpOk = TRUE,
                  !.places = FallbackFor(calls[c].query)]]

\* fetch resolves with a response (whatever its status); clearTimeout(timeout)
SearchFetchResolved(c, ok) ==
    /\ calls[c].op = "search" /\ calls[c].pc = "fetch"
    /\ calls' = [calls EXCEPT ![c] =
           [@ EXCEPT !.pc = "json", !.timer = FALSE, !.deadline = 0, !.httpOk = ok]]
    /\ UNCHANGED <<searchCache, cacheFiles, offlineMode, now>>

\* Faulty variant: a rejected request is issued once more before giving up.
SearchFetchRejectedRetrying(c) ==
    /\ calls[c].op = "search" /\ calls[c].pc = "fetch"
    /\ IF calls[c].requests < 2
       THEN calls' = [calls EXCEPT ![c] = [@ EXCEPT !.requests = @ + 1]]
       ELSE calls' = SearchCatch(c, "transport")
    /\ UNCHANGED <<searchCache, cacheFiles, offlineMode, now>>

\* Faulty variant: after a rejected request an entry of the key, however old,
\* is served in place of the gazetteer.
SearchFetchRejectedServingStale(c) ==
    /\ calls[c].op = "search" /\ calls[c].pc = "fetch"
    /\ LET cacheKey == KeyFor(calls[c].query)
       IN  IF cacheKey \in DOMAIN searchCache
           THEN calls' = [SearchCatch(c, "transport") EXCEPT
                             ![c].places = searchCache[cacheKey].data]
           ELSE calls' = SearchCatch(c, "transport")
    /\ UNCHANGED <<searchCache, cacheFiles, offlineMode, now>>

\* fetch rejects: a transport error
SearchFetchRejected(c) ==
    /\ calls[c].op = "search" /\ calls[c].pc = "fetch"
    /\ calls' = SearchCatch(c, "transport")
    /\ UNCHANGED <<searchCache, cacheFiles, offlineMode, now>>

\* the timer fires: controller.abort() rejects the pending fetch
SearchAborted(c) ==
    /\ calls[c].op = "search" /\ calls[c].pc = "fetch" /\ calls[c].timer
    /\ now >= calls[c].deadline
    /\ calls' = SearchCatch(c, "timeout")
    /\ UNCHANGED <<searchCache, cacheFiles, offlineMode, now>>

\* Faulty variant: the fallback result is cached like a provider result.
SearchJsonRejectedCaching(c) ==
    /\ calls[c].op = "search" /\ calls[c].pc = "json"
    /\ calls' = SearchCatch(c, "parse")
    /\ searchCache' = CacheSet(searchCache, KeyFor(calls[c].query),
                               [data |-> FallbackFor(calls[c].query), timestamp |-> now])
    /\ UNCHANGED <<cacheFiles, offlineMode, now>>

\* response.json() rejects: the body does not parse
SearchJsonRejected(c) ==
    /\ calls[c].op = "search" /\ calls[c].pc = "json"
    /\ calls' = SearchCatch(c, "parse")
    /\ UNCHANGED <<searchCache, cacheFiles, offlineMode, now>>

\* response.json() resolves with data: map, sort, slice, cache, return
SearchJsonResolved(c, data) ==
    /\ calls[c].op = "search" /\ calls[c].pc = "json"
    /\ IF ThrowsFor(data)
       THEN /\ calls' = [SearchCatch(c, "payload") EXCEPT ![c].data = data]
            /\ UNCHANGED searchCache
       ELSE LET finalResults == ResultsFor(data)
            IN  /\ searchCache' = CacheSet(searchCache, KeyFor(calls[c].query),
                                           [data |-> finalResults, timestamp |-> now])
                /\ calls' = [calls EXCEPT ![c] =
                       [@ EXCEPT !.pc = "returned", !.cause = "provider", !.value = "places",
                                 !.data = data, !.httpOk = TRUE, !.places = finalResults]]
    /\ UNCHANGED <<cacheFiles, offlineMode, now>>

(***************************************************************************)
(* getNearbyPlaces                                                         *)
(***************************************************************************)
\* Faulty variant: the generated places are kept in the search cache.
NearbyCallCaching(c, at, category, tape) ==
    /\ calls[c].pc = "idle"
    /\ ~placeDataThrows(category)
    /\ LET places == generateIndiaSpecificPlaces(at.lat, at.lng, category, tape)
       IN  /\ calls' = [calls EXCEPT ![c] =
                  [IdleCall EXCEPT !.op = "nearby", !.from = at, !.category = category,
                                   !.pc = "returned", !.cause = "generated",
                                   !.value = "places", !.places = places]]
           /\ searchCache' = CacheSet(searchCache, category,
                                      [data |-> places, timestamp |-> now])
    /\ UNCHANGED <<cacheFiles, offlineMode, now>>

NearbyCall(c, at, category, tape) ==
    /\ calls[c].pc = "idle"
    /\ LET entered == [IdleCall EXCEPT !.op = "nearby", !.from = at, !.category = category]
       IN  IF placeDataThrows(category)
           THEN calls' = [calls EXCEPT ![c] =
                    [entered EXCEPT !.pc = "raised", !.cause = "TypeError"]]
           ELSE calls' = [calls EXCEPT ![c] =
                    [entered EXCEPT !.pc = "returned", !.cause = "generated", !.value = "places",
                                    !.places = generateIndiaSpecificPlaces(at.lat, at.lng,
                                                                           category, tape)]]
    /\ UNCHANGED <<searchCache, cacheFiles, offlineMode, now>>

(***************************************************************************)
(* getDirections                                                           *)
(***************************************************************************)
RouteCall(c, from, to, mode) ==
    /\ calls[c].pc = "idle"
    /\ calls' = [calls EXCEPT ![c] =
           [IdleCall EXCEPT !.op = "route", !.pc = "fetch", !.from = from, !.to = to,
                            !.mode = mode, !.timer = TRUE, !.deadline = now + RouteTimeout,
                            !.requests = 1]]
    /\ UNCHANGED <<searchCache, cacheFiles, offlineMode, now>>

\* catch (error): return this.calculateOfflineDirections(start, end, mode)
RouteCatch(c, cause, r1, r2) ==
    [calls EXCEPT ![c] =
        [@ EXCEPT !.pc = "returned", !.cause = cause, !.value = "route", !.timer = FALSE,
                  !.deadline = 0,
                  !.route = calculateOfflineDirections(calls[c].from, calls[c].to,
                                                       calls[c].mode, r1, r2)]]

RouteFetchResolved(c, ok) ==
    /\ calls[c].op = "route" /\ calls[c].pc = "fetch"
    /\ calls' = [calls EXCEPT ![c] =
           [@ EXCEPT !.pc = "json", !.timer = FALSE, !.deadline = 0, !.httpOk = ok]]
    /\ UNCHANGED <<searchCache, cacheFiles, offlineMode, now>>

RouteFetchRejected(c, r1, r2) ==
    /\ calls[c].op = "route" /\ calls[c].pc = "fetch"
    /\ calls' = RouteCatch(c, "transport", r1, r2)
    /\ UNCHANGED <<searchCache, cacheFiles, offlineMode, now>>

\* Faulty variant: a timed-out request yields "no route".
RouteAbortedNull(c, r1, r2) ==
    /\ calls[c].op = "route" /\ calls[c].pc = "fetch" /\ calls[c].timer
    /\ now >= calls[c].deadline
    /\ calls' = [calls EXCEPT ![c] =
           [@ EXCEPT !.pc = "returned", !.cause = "timeout", !.value = "null",
                     !.timer = FALSE, !.deadline = 0]]
    /\ UNCHANGED <<searchCache, cacheFiles, offlineMode, now>>

RouteAborted(c, r1, r2) ==
    /\ calls[c].op = "route" /\ calls[c].pc = "fetch" /\ calls[c].timer
    /\ now >= calls[c].deadline
    /\ calls' = RouteCatch(c, "timeout", r1, r2)
    /\ UNCHANGED <<searchCache, cacheFiles, offlineMode, now>>

RouteJsonRejected(c, r1, r2) ==
    /\ calls[c].op = "route" /\ calls[c].pc = "json"
    /\ calls' = RouteCatch(c, "parse", r1, r2)
    /\ UNCHANGED <<searchCache, cacheFiles, offlineMode, now>>

\* Faulty variant: an answer without routes is replaced by the offline estimate.
RouteJsonResolvedEstimating(c, data, r1, r2) ==
    /\ calls[c].op = "route" /\ calls[c].pc = "json"
    /\ IF routeDataThrows(data) \/ ~data.hasRoutes \/ Len(data.routes) = 0
       THEN calls' = [RouteCatch(c, "payload", r1, r2) EXCEPT ![c].data = data]
       ELSE calls' = [calls EXCEPT ![c] =
                [@ EXCEPT !.pc = "returned", !.cause = "provider", !.value = "route",
                          !.data = data, !.route = providerEstimate(data, calls[c].mode)]]
    /\ UNCHANGED <<searchCache, cacheFiles, offlineMode, now>>

\* response.json() resolves with data
RouteJsonResolved(c, data, r1, r2) ==
    /\ calls[c].op = "route" /\ calls[c].pc = "json"
    /\ IF routeDataThrows(data)
       THEN calls' = [RouteCatch(c, "payload", r1, r2) EXCEPT ![c].data = data]
       ELSE IF data.hasRoutes /\ Len(data.routes) > 0
       THEN calls' = [calls EXCEPT ![c] =
                [@ EXCEPT !.pc = "returned", !.cause = "provider", !.value = "route",
                          !.data = data, !.route = providerEstimate(data, calls[c].mode)]]
       ELSE calls' = [calls EXCEPT ![c] =
                [@ EXCEPT !.pc = "returned", !.cause = "provider", !.value = "null",
                          !.data = data]]
    /\ UNCHANGED <<searchCache, cacheFiles, offlineMode, now>>

(***************************************************************************)
(* The rest of the environment                                             *)
(***************************************************************************)
\* The caller takes the settled promise; the slot is free for the next call.
Deliver(c) ==
    /\ calls[c].pc \in {"returned", "raised"}
    /\ calls' = [calls EXCEPT ![c] = IdleCall]
    /\ UNCHANGED <<searchCache, cacheFiles, offlineMode, now>>

\* Faulty variant: the map is cleared, the files of the directory are left.
clearCacheMemoryOnly ==
    /\ searchCache' = EmptyCache
    /\ UNCHANGED <<cacheFiles, offlineMode, now, calls>>

clearCache ==
    /\ searchCache' = EmptyCache
    /\ cacheFiles' = {}
    /\ UNCHANGED <<offlineMode, now, calls>>

toggleOfflineCommand ==
    /\ offlineMode' = ~offlineMode
    /\ UNCHANGED <<searchCache, cacheFiles, now, calls>>

\* Time passes, but not past the deadline of an armed timer.
Tick(t) ==
    /\ t > now
    /\ \A c \in Calls : calls[c].timer => t <= calls[c].deadline
    /\ now' = t
    /\ UNCHANGED <<searchCache, cacheFiles, offlineMode, calls>>

\* The search pipeline and its cache.
Next ==
    \/ \E c \in Calls, q \in Queries : SearchCall(c, q)
    \/ \E c \in Calls, ok \in BOOLEAN : SearchFetchResolved(c, ok)
    \/ \E c \in Calls : SearchFetchRejected(c)
    \/ \E c \in Calls : SearchAborted(c)
    \/ \E c \in Calls : SearchJsonRejected(c)
    \/ \E c \in Calls, data \in SearchBodies : SearchJsonResolved(c, data)
    \/ \E c \in Calls : Deliver(c)
    \/ clearCache
    \/ toggleOfflineCommand
    \/ \E t \in TimePoints : Tick(t)

Spec == Init /\ [][Next]_vars

\* One search at a time, answered with any candidate list.
NextRank ==
    \/ SearchCall(1, <<"G","o","a">>)
    \/ SearchFetchResolved(1, TRUE)
    \/ \E data \in RankBodies : SearchJsonResolved(1, data)
    \/ Deliver(1)
    \/ clearCache

RankSpec == Init /\ [][NextRank]_vars

\* Directions, one invocation at a time.
NextRoute ==
    \/ \E pr \in RoutePairs, mode \in Modes : RouteCall(1, pr[1], pr[2], mode)
    \/ \E ok \in BOOLEAN : RouteFetchResolved(1, ok)
    \/ \E r1 \in RandomSamples, r2 \in RandomSamples : RouteFetchRejected(1, r1, r2)
    \/ \E r1 \in RandomSamples, r2 \in RandomSamples : RouteAborted(1, r1, r2)
    \/ \E r1 \in RandomSamples, r2 \in RandomSamples : RouteJsonRejected(1, r1, r2)
    \/ \E data \in RouteBodies, r1 \in RandomSamples, r2 \in RandomSamples :
          RouteJsonResolved(1, data, r1, r2)
    \/ Deliver(1)
    \/ toggleOfflineCommand
    \/ \E t \in RouteTimePoints : Tick(t)

RouteSpec == Init /\ [][NextRoute]_vars

\* Nearby places.
NextNearby ==
    \/ \E c \in Calls, at \in Cities, category \in Categories, tape \in RandomTapes :
          NearbyCall(c, at, category, tape)
    \/ \E c \in Calls : Deliver(c)
    \/ toggleOfflineCommand

NearbySpec == Init /\ [][NextNearby]_vars

(***************************************************************************)
(* Payloads with missing, unparsable or out-of-range coordinates           *)
(***************************************************************************)
\* { display_name: "Goa, India", lon: "74.1240", ... }: no lat property.
ItemNoLat ==
    Item(<<"G","o","a",","," ","I","n","d","i","a">>, Undefined, <<"7","4",".","1","2","4","0">>, <<"s","t","a","t","e">>, <<"b","o","u","n","d","a","r","y">>, NoAddress)

\* lon is a string parseFloat cannot read.
ItemBadLon ==
    Item(<<"P","a","n","a","j","i",","," ","G","o","a",","," ","I","n","d","i","a">>, <<"1","5",".","4","9","0","9">>, <<"e","a","s","t">>, <<"c","i","t","y">>, <<"p","l","a","c","e">>, NoAddress)

\* lat parses to a number outside [-90, 90].
ItemFarNorth ==
    Item(<<"N","o","w","h","e","r","e">>, <<"9","5",".","0">>, <<"7","4",".","0">>, <<"c","i","t","y">>, <<"p","l","a","c","e">>, NoAddress)

CoordBodies ==
    {ArrayBody(<<ItemGoa>>),
     ArrayBody(<<ItemGoa, ItemNoLat>>),
     ArrayBody(<<ItemBadLon>>),
     ArrayBody(<<ItemFarNorth, ItemGoa>>)}

\* Searches answered with these payloads.
NextCoord ==
    \/ \E c \in Calls, q \in Queries : SearchCall(c, q)
    \/ \E c \in Calls : SearchFetchResolved(c, TRUE)
    \/ \E c \in Calls, data \in CoordBodies : SearchJsonResolved(c, data)
    \/ \E c \in Calls : Deliver(c)
    \/ clearCache

CoordSpec == Init /\ [][NextCoord]_vars

(***************************************************************************)
(* One caller using search and directions, with the timers                 *)
(***************************************************************************)
\* The clock stops at MaxClock; no call is made whose timer would fire later.
MaxClock == 8000

EngineTimePoints == {t \in 0..MaxClock : t % SearchTimeout = 0}

NextEngine ==
    \/ \E q \in Queries : now + SearchTimeout <= MaxClock /\ SearchCall(1, q)
    \/ \E ok \in BOOLEAN : SearchFetchResolved(1, ok)
    \/ SearchFetchRejected(1)
    \/ SearchAborted(1)
    \/ SearchJsonRejected(1)
    \/ \E data \in SearchBodies : SearchJsonResolved(1, data)
    \/ \E pr \in RoutePairs, mode \in Modes :
          now + RouteTimeout <= MaxClock /\ RouteCall(1, pr[1], pr[2], mode)
    \/ \E ok \in BOOLEAN : RouteFetchResolved(1, ok)
    \/ \E r \in RandomSamples : RouteFetchRejected(1, r, r)
    \/ \E r \in RandomSamples : RouteAborted(1, r, r)
    \/ \E r \in RandomSamples : RouteJsonRejected(1, r, r)
    \/ \E data \in RouteBodies, r \in RandomSamples : RouteJsonResolved(1, data, r, r)
    \/ Deliver(1)
    \/ \E t \in EngineTimePoints : Tick(t)

EngineSpec == Init /\ [][NextEngine]_vars

\* Time passes, and a timer that is due fires: setTimeout callbacks run once the
\* event loop is free.  The provider is under no obligation: fetch and
\* response.json() may stay pending for ever.
LiveSpec ==
    /\ Init /\ [][NextEngine]_vars
    /\ WF_vars(\E t \in EngineTimePoints : Tick(t))
    /\ WF_vars(SearchAborted(1))
    /\ WF_vars(\E r \in RandomSamples : RouteAborted(1, r, r))

(***************************************************************************)
(* The clearCache command with a failing file system                       *)
(***************************************************************************)
\* What can fail in clearCache: nothing, the listing of the directory, or the
\* deletion of a file.
ClearFailures == {"none", "readdirSync", "unlinkSync"}

\* offlineMap.clearCache: apiManager.clearCache(), then the information
\* message.  The map is cleared first.  readdirSync and unlinkSync throw on an
\* I/O error; neither clearCache nor the command handler has a try/catch, so the
\* exception leaves both and the message is not shown.  When unlinkSync fails
\* on a file, the files listed before it (kept here) are already deleted.
clearCacheCommand(c, failure, kept) ==
    /\ calls[c].pc = "idle"
    /\ searchCache' = EmptyCache
    /\ CASE failure = "none" ->
              /\ kept = {}
              /\ cacheFiles' = {}
              /\ calls' = [calls EXCEPT ![c] =
                     [IdleCall EXCEPT !.op = "clearCache", !.pc = "returned",
                                      !.cause = "none", !.value = "cleared successfully"]]
         [] failure = "readdirSync" ->
              /\ kept = cacheFiles
              /\ cacheFiles' = cacheFiles
              /\ calls' = [calls EXCEPT ![c] =
                     [IdleCall EXCEPT !.op = "clearCache", !.pc = "raised",
                                      !.cause = "readdirSync"]]
         [] failure = "unlinkSync" ->
              /\ kept # {} /\ kept \subseteq cacheFiles
              /\ cacheFiles' = kept
              /\ calls' = [calls EXCEPT ![c] =
                     [IdleCall EXCEPT !.op = "clearCache", !.pc = "raised",
                                      !.cause = "unlinkSync"]]
    /\ UNCHANGED <<offlineMode, now>>

NextClear ==
    \/ \E c \in Calls, q \in Queries : SearchCall(c, q)
    \/ \E c \in Calls : SearchFetchResolved(c, TRUE)
    \/ \E c \in Calls, data \in SearchBodies : SearchJsonResolved(c, data)
    \/ \E c \in Calls : Deliver(c)
    \/ \E c \in Calls, failure \in ClearFailures, kept \in SUBSET cacheFiles :
          clearCacheCommand(c, failure, kept)

ClearSpec == Init /\ [][NextClear]_vars

(***************************************************************************)
(* Callers that change the array they were given                           *)
(***************************************************************************)
\* Invocation c holds the array of the cache entry of its key: searchLocation
\* returns cached.data itself on a hit, and on the provider path the very
\* finalResults it has just put into the entry.  (In AliasSpec an entry, once
\* written, is never replaced or removed, so the array a caller was given for
\* a key is the array of the key's entry.)
HoldsEntryArray(c) ==
    /\ calls[c].op = "search" /\ calls[c].pc = "returned"
    /\ calls[c].cause \in {"hit", "provider"}
    /\ KeyFor(calls[c].query) \in DOMAIN searchCache

\* The caller of c calls results.pop() on the array it was given.  The array is
\* one object: the entry and every other caller holding it see the change.
callerMutates(c) ==
    /\ HoldsEntryArray(c) /\ calls[c].places # <<>>
    /\ LET key     == KeyFor(calls[c].query)
           mutated == SubSeq(calls[c].places, 1, Len(calls[c].places) - 1)
       IN  /\ searchCache' = [searchCache EXCEPT ![key].data = mutated]
           /\ calls' = [d \in Calls |->
                  IF HoldsEntryArray(d) /\ KeyFor(calls[d].query) = key
                  THEN [calls[d] EXCEPT !.places = mutated]
                  ELSE calls[d]]
    /\ UNCHANGED <<cacheFiles, offlineMode, now>>

\* Caller 1 searches; caller 2 searches only what the cache already holds.  The
\* clock stands still and the cache is not cleared.
NextAlias ==
    \/ \E q \in Queries : SearchCall(1, q)
    \/ SearchFetchResolved(1, TRUE)
    \/ \E data \in SearchBodies : SearchJsonResolved(1, data)
    \/ \E q \in Queries : CacheHit(KeyFor(q)) /\ SearchCall(2, q)
    \/ \E c \in Calls : Deliver(c)
    \/ \E c \in Calls : callerMutates(c)

AliasSpec == Init /\ [][NextAlias]_vars

(***************************************************************************)
(* Searches that fall back to the gazetteer                                *)
(***************************************************************************)
FallbackQueries ==
    {<<>>, <<" "," ">>, <<"a","l">>, <<" ","A","L"," ">>, <<"i","n","d","i","a">>, <<"M","u","m","b","a","i">>, <<"c","h","e">>, <<"c","i","t","y">>, <<"p","e","a","r","l","s">>,
     <<"z","z","z">>, <<"a">>}

\* Every request fails at transport level.
NextFallback ==
    \/ \E c \in Calls, q \in FallbackQueries : SearchCall(c, q)
    \/ \E c \in Calls : SearchFetchRejected(c)
    \/ \E c \in Calls : Deliver(c)

FallbackSpec == Init /\ [][NextFallback]_vars

(***************************************************************************)
(* Directions and nearby places beside a filled search cache               *)
(***************************************************************************)
\* Invocation 1 searches and fills the cache; invocation 2 asks for directions
\* and for nearby places.
NextFrame ==
    \/ \E q \in Queries : SearchCall(1, q)
    \/ \E ok \in BOOLEAN : SearchFetchResolved(1, ok)
    \/ \E data \in SearchBodies : SearchJsonResolved(1, data)
    \/ \E mode \in {<<"d","r","i","v","i","n","g">>, <<"w","a","l","k","i","n","g">>} :
          RouteCall(2, Point(0, 0), Point(0, 10000), mode)
    \/ \E ok \in BOOLEAN : RouteFetchResolved(2, ok)
    \/ RouteFetchRejected(2, 500, 500)
    \/ \E data \in RouteBodies : RouteJsonResolved(2, data, 500, 500)
    \/ \E category \in Categories, tape \in RandomTapes :
          NearbyCall(2, Point(129716, 772090), category, tape)
    \/ \E c \in Calls : Deliver(c)

FrameSpec == Init /\ [][NextFrame]_vars

(***************************************************************************)
(* Long candidate lists on every path of a search                          *)
(***************************************************************************)
\* One search at a time for a term every gazetteer record matches, answered
\* with any candidate list or not at all.
NextBound ==
    \/ \E q \in {<<"i","n","d","i","a">>, <<" ","I","n","d","i","a"," ">>} : SearchCall(1, q)
    \/ SearchFetchResolved(1, TRUE)
    \/ SearchFetchRejected(1)
    \/ \E data \in RankBodies : SearchJsonResolved(1, data)
    \/ Deliver(1)
    \/ clearCache

BoundSpec == Init /\ [][NextBound]_vars

(***************************************************************************)
(* clearCache while searches are in flight                                 *)
(***************************************************************************)
\* The cache directory holds its files until clearCache has run.  Searches are
\* started only before that; those in flight go on after it.
NextStale ==
    \/ \E c \in Calls, q \in Queries : cacheFiles # {} /\ SearchCall(c, q)
    \/ \E c \in Calls, ok \in BOOLEAN : SearchFetchResolved(c, ok)
    \/ \E c \in Calls : SearchFetchRejected(c)
    \/ \E c \in Calls, data \in SearchBodies : SearchJsonResolved(c, data)
    \/ \E c \in Calls : Deliver(c)
    \/ clearCache

StaleSpec == Init /\ [][NextStale]_vars
(***************************************************************************)
(* Properties                                                              *)
(***************************************************************************)
\* The ways a geocoding or routing call fails.
FailureCauses == {"timeout", "transport", "parse", "payload"}

\* A step in which invocation c is made as a search.
SearchStarts(c) == calls[c].pc = "idle" /\ calls'[c].op = "search"

\* A step in which the provider call of search c fails.
SearchFails(c) ==
    /\ calls[c].op = "search" /\ calls[c].pc \in {"fetch", "json"}
    /\ calls'[c].pc = "returned" /\ calls'[c].cause \in FailureCauses

\* The cache holds an entry for key that is younger than five minutes.
FreshEntry(key) ==
    /\ key \in DOMAIN searchCache
    /\ now - searchCache[key].timestamp < 300000

\* Search c went through the provider and its result is not yet taken.
ProviderResult(c) ==
    calls[c].op = "search" /\ calls[c].pc = "returned" /\ calls[c].cause = "provider"

\* Search d returned in the step that made it, with places, without a request.
ServedFromCache(d, places) ==
    /\ calls'[d].pc = "returned" /\ calls'[d].value = "places"
    /\ calls'[d].places = places
    /\ calls'[d].requests = 0

\* C1: when the geocoding call of a search fails (timeout, transport error,
\* unparsable body, payload that is no array of items), the search returns
\* getIndiaFallbackLocations(query) and the cache is left as it was; a search
\* made while its key has no fresh entry goes to the network.
C1_FailedSearchFallsBack ==
    [][/\ \A c \in Calls :
            SearchFails(c) =>
                /\ calls'[c].value = "places"
                /\ calls'[c].places = FallbackFor(calls[c].query)
                /\ searchCache' = searchCache
       /\ \A d \in Calls :
            (SearchStarts(d) /\ ~FreshEntry(KeyFor(calls'[d].query))) =>
                calls'[d].pc = "fetch" /\ calls'[d].requests = 1]_vars

\* A search has failed for a key, the cache has no entry for it, and another
\* search for the same key is on the network.
C1_Witness ==
    \E c, d \in Calls :
        /\ c # d
        /\ calls[c].op = "search" /\ calls[c].pc = "returned" /\ calls[c].cause = "timeout"
        /\ calls[d].op = "search" /\ calls[d].pc = "fetch"
        /\ KeyFor(calls[d].query) = KeyFor(calls[c].query)
        /\ KeyFor(calls[c].query) \notin DOMAIN searchCache

\* C2: after a search succeeded through the provider, a later search for the
\* same key, made while the entry that search stored is the entry of the key
\* and is younger than five minutes, returns that search's sequence without a
\* request.
C2_HitWhileEntryStands ==
    [][\A c, d \in Calls :
          (/\ c # d /\ ProviderResult(c) /\ SearchStarts(d)
           /\ KeyFor(calls'[d].query) = KeyFor(calls[c].query)
           /\ FreshEntry(KeyFor(calls[c].query))
           /\ searchCache[KeyFor(calls[c].query)].data = calls[c].places)
          => ServedFromCache(d, calls[c].places)]_vars

\* A later search was served the non-empty sequence an earlier one stored.
C2_Witness ==
    \E c, d \in Calls :
        /\ ProviderResult(c) /\ calls[c].places # <<>>
        /\ calls[d].op = "search" /\ calls[d].pc = "returned" /\ calls[d].cause = "hit"
        /\ calls[d].query = calls[c].query
        /\ calls[d].places = calls[c].places /\ calls[d].requests = 0
        /\ now > 0

\* C3: a search made while the offline-mode setting is true issues no request
\* and returns the fallback result for its query.
C3_OfflineSkipsNetwork ==
    [][\A c \in Calls :
          (SearchStarts(c) /\ offlineMode) =>
              /\ calls'[c].requests = 0
              /\ calls'[c].pc = "returned"
              /\ calls'[c].places = FallbackFor(calls'[c].query)]_vars

\* C4: no invocation of search, nearbyPlaces or route raises to its caller.
C4_NeverRaises == \A c \in Calls : calls[c].pc # "raised"

\* C5: a search is served from the cache iff its key has an entry and
\* now - timestamp < 300000; otherwise it goes to the provider, and an expired
\* entry is not removed by the lookup.
C5_HitIffFresh ==
    [][\A d \in Calls :
          SearchStarts(d) =>
              LET key == KeyFor(calls'[d].query)
              IN  /\ searchCache' = searchCache
                  /\ IF key \in DOMAIN searchCache
                        /\ now - searchCache[key].timestamp < 300000
                     THEN ServedFromCache(d, searchCache[key].data)
                     ELSE calls'[d].pc = "fetch" /\ calls'[d].requests = 1]_vars

\* One search was served from the cache, and another, made when the entry of
\* its key had reached the age of 300000, is on the network while the entry is
\* still in the cache.
C5_Witness ==
    \E c, d \in Calls :
        /\ calls[c].op = "search" /\ calls[c].pc = "returned" /\ calls[c].cause = "hit"
        /\ calls[d].op = "search" /\ calls[d].pc = "fetch"
        /\ KeyFor(calls[d].query) \in DOMAIN searchCache
        /\ (calls[d].deadline - SearchTimeout)
             - searchCache[KeyFor(calls[d].query)].timestamp >= 300000

\* Two characters that are equal or the two cases of one letter.
SameLetter(a, b) ==
    a = b \/ \E i \in 1..26 : {a, b} = {UpperLetters[i], LowerLetters[i]}

\* q1 and q2 differ only in letter case and in leading and trailing white space.
DiffersOnlyInCaseAndSpace(q1, q2) ==
    \E i1 \in 1..(Len(q1) + 1), i2 \in 1..(Len(q2) + 1), n \in 0..Len(q1) :
        /\ i1 + n - 1 <= Len(q1) /\ i2 + n - 1 <= Len(q2)
        /\ \A j \in 1..Len(q1) : (j < i1 \/ j >= i1 + n) => q1[j] \in WhiteSpace
        /\ \A j \in 1..Len(q2) : (j < i2 \/ j >= i2 + n) => q2[j] \in WhiteSpace
        /\ \A j \in 0..(n - 1) : SameLetter(q1[i1 + j], q2[i2 + j])

similarTable == [q1 \in Queries |-> {q2 \in Queries : DiffersOnlyInCaseAndSpace(q1, q2)}]

\* C6: a search for q2, made while the entry stored by a successful search for
\* q1 is fresh, is served that entry without a request whenever q1 and q2
\* differ only in letter case and leading and trailing white space.
C6_CaseAndSpaceShareEntry ==
    [][\A c, d \in Calls :
          (/\ c # d /\ ProviderResult(c) /\ SearchStarts(d)
           /\ calls'[d].query \in similarTable[calls[c].query]
           /\ FreshEntry(KeyFor(calls[c].query))
           /\ searchCache[KeyFor(calls[c].query)].data = calls[c].places)
          => ServedFromCache(d, calls[c].places)]_vars

\* A search for " GOA " was served what a search for "Goa" stored.
C6_Witness ==
    \E c, d \in Calls :
        /\ ProviderResult(c) /\ calls[c].places # <<>>
        /\ calls[d].op = "search" /\ calls[d].pc = "returned" /\ calls[d].cause = "hit"
        /\ calls[d].query # calls[c].query
        /\ calls[d].query \in similarTable[calls[c].query]
        /\ calls[d].places = calls[c].places /\ calls[d].requests = 0

\* The region of the ranking: lat in [6.0, 37.6], lng in [68.1, 97.4].
InRegion(p) == p.lat >= 60000 /\ p.lat <= 376000 /\ p.lng >= 681000 /\ p.lng <= 974000

OutOfRegion(p) == ~InRegion(p)

Min(a, b) == IF a < b THEN a ELSE b

\* The candidates of a payload, in the provider's order.
Candidates(data) == [i \in 1..Len(data.items) |-> stripIsIndian(mapItem(data.items[i]))]

\* In-region candidates, then the others, each group in the provider's order;
\* the first 8 of that.
RegionFirst(data) ==
    LET ordered == SelectSeq(Candidates(data), InRegion)
                   \o SelectSeq(Candidates(data), OutOfRegion)
    IN  SubSeq(ordered, 1, Min(8, Len(ordered)))

\* C7: what a search returns on the provider path is the in-region candidates
\* followed by the out-of-region ones, each group in the provider's order, cut
\* to the first 8: its length is min(8, number of candidates).
C7_RegionFirstStableTop8 ==
    \A c \in Calls :
        ProviderResult(c) =>
            /\ calls[c].places = RegionFirst(calls[c].data)
            /\ Len(calls[c].places) = Min(8, Len(calls[c].data.items))

\* A list of more than 8 candidates that starts outside the region and has an
\* in-region candidate after the eighth position has been ranked.
C7_Witness ==
    \E c \in Calls :
        /\ ProviderResult(c)
        /\ Len(calls[c].data.items) > 8
        /\ OutOfRegion(Candidates(calls[c].data)[1])
        /\ InRegion(Candidates(calls[c].data)[9])
        /\ \E i \in 2..8 : OutOfRegion(Candidates(calls[c].data)[i])

\* C8: when the routing call times out, fails at transport level or answers
\* with an unparsable body, route returns the offline estimate for its start,
\* end and mode, whose mode is the requested one, and never null.
C8_RouteFailureFallsBack ==
    \A c \in Calls :
        (/\ calls[c].op = "route" /\ calls[c].pc = "returned"
         /\ calls[c].cause \in {"timeout", "transport", "parse"})
        => /\ calls[c].value = "route"
           /\ calls[c].route.mode = calls[c].mode
           /\ \E r1, r2 \in RandomSamples :
                 calls[c].route = calculateOfflineDirections(calls[c].from, calls[c].to,
                                                             calls[c].mode, r1, r2)

\* A route request between two different points timed out.
C8_Witness ==
    \E c \in Calls :
        /\ calls[c].op = "route" /\ calls[c].pc = "returned" /\ calls[c].cause = "timeout"
        /\ calls[c].from # calls[c].to
        /\ calls[c].value = "route"
        /\ now = RouteTimeout

\* C9: an answer with a non-2xx status, or a parsable routing body without a
\* routes field, is handled like a failure: route returns the offline estimate,
\* not null and not a provider estimate.
C9_BadAnswerFallsBack ==
    \A c \in Calls :
        (/\ calls[c].op = "route" /\ calls[c].pc = "returned"
         /\ \/ ~calls[c].httpOk
            \/ (calls[c].data.kind = "object" /\ ~calls[c].data.hasRoutes))
        => /\ calls[c].value = "route"
           /\ calls[c].cause # "provider"

\* C10: when the routing provider answers successfully with zero routes, route
\* returns null, not the offline estimate, and the answer is no failure.
C10_NoRouteIsNull ==
    \A c \in Calls :
        (/\ calls[c].op = "route" /\ calls[c].pc = "returned"
         /\ calls[c].httpOk
         /\ calls[c].data.kind = "object" /\ calls[c].data.hasRoutes
         /\ Len(calls[c].data.routes) = 0)
        => /\ calls[c].value = "null"
           /\ calls[c].cause = "provider"
           /\ calls[c].route = NoRoute

\* The provider answered 200 with an empty routes array and route returned null.
C10_Witness ==
    \E c \in Calls :
        /\ calls[c].op = "route" /\ calls[c].pc = "returned"
        /\ calls[c].httpOk /\ calls[c].data = RouteBody(<<>>)
        /\ calls[c].value = "null"

\* A place whose coordinates are numbers within -90..90 and -180..180 degrees.
ValidCoordinates(p) ==
    /\ p.lat # NaN /\ p.lng # NaN
    /\ p.lat >= 0 - 900000 /\ p.lat <= 900000
    /\ p.lng >= 0 - 1800000 /\ p.lng <= 1800000

\* C11: every place a search returns and every place in the cache has finite
\* coordinates with -90 <= lat <= 90 and -180 <= lng <= 180; an item whose lat
\* or lon is missing or unparsable never becomes a place.
C11_CoordinatesValid ==
    /\ \A c \in Calls :
          (calls[c].op = "search" /\ calls[c].pc = "returned") =>
              \A i \in 1..Len(calls[c].places) : ValidCoordinates(calls[c].places[i])
    /\ \A k \in DOMAIN searchCache :
          \A i \in 1..Len(searchCache[k].data) : ValidCoordinates(searchCache[k].data[i])

\* C12: every search and every directions request that is waiting for the
\* provider (for the response or for its body) eventually returns.
C12_EveryCallReturns ==
    \A c \in Calls :
        (calls[c].pc \in {"fetch", "json"}) ~> (calls[c].pc = "returned")

\* A step in which invocation c is made as a search or a directions request.
CallStarts(c) == calls[c].pc = "idle" /\ calls'[c].op \in {"search", "route"}

\* C13: an invocation of search or route issues no request when it is a cache
\* hit and exactly one otherwise; while it waits for the provider the number of
\* its requests does not change, and a failure of the request ends it at once.
C13_AtMostOneRequest ==
    [][\A c \in Calls :
          /\ CallStarts(c) =>
                calls'[c].requests = (IF calls'[c].cause = "hit" THEN 0 ELSE 1)
          /\ (calls[c].pc \in {"fetch", "json"}) =>
                /\ calls'[c].requests = calls[c].requests
                /\ calls'[c].requests = 1
                /\ calls'[c].pc \in {"fetch", "json", "returned"}
                /\ (calls'[c].cause \in FailureCauses) => calls'[c].pc = "returned"]_vars

\* A search and a directions request have each failed after their one request.
C13_Witness ==
    \E c \in Calls :
        /\ calls[c].pc = "returned" /\ calls[c].cause = "transport"
        /\ calls[c].requests = 1
        /\ calls[c].op = "route"
        /\ \E k \in DOMAIN searchCache : TRUE

\* A step in which search c completes with the provider's answer.
SearchSucceeds(c) ==
    /\ calls[c].op = "search" /\ calls[c].pc = "json"
    /\ calls'[c].pc = "returned" /\ calls'[c].cause = "provider"

\* C14: a search made while another search for the same key is in flight and
\* the key has no fresh entry issues its own request; a search that succeeds
\* replaces the entry of its key by its whole result and touches no other
\* entry, a search that fails writes nothing, and no other step of a search
\* changes the cache: after two concurrent searches the entry is the result of
\* the one that succeeded last.
C14_LastWriteWins ==
    [][/\ \A c \in Calls :
            SearchSucceeds(c) =>
                LET key == KeyFor(calls[c].query)
                IN  /\ DOMAIN searchCache' = DOMAIN searchCache \cup {key}
                    /\ searchCache'[key] = [data |-> calls'[c].places, timestamp |-> now]
                    /\ \A k \in DOMAIN searchCache \ {key} : searchCache'[k] = searchCache[k]
       /\ \A c \in Calls : SearchFails(c) => searchCache' = searchCache
       /\ ((\A c \in Calls : ~SearchSucceeds(c)) /\ calls' # calls) => searchCache' = searchCache
       /\ \A c, d \in Calls :
            (/\ c # d /\ SearchStarts(d)
             /\ calls[c].op = "search" /\ calls[c].pc \in {"fetch", "json"}
             /\ KeyFor(calls'[d].query) = KeyFor(calls[c].query)
             /\ ~FreshEntry(KeyFor(calls[c].query)))
            => calls'[d].pc = "fetch" /\ calls'[d].requests = 1]_vars

\* Two searches for one key were in flight together and both succeeded with
\* different results; the entry is the result of the one that completed at the
\* present instant, later than the other could be cancelled.
C14_Witness ==
    \E c, d \in Calls :
        /\ c # d
        /\ ProviderResult(c) /\ ProviderResult(d)
        /\ KeyFor(calls[c].query) = KeyFor(calls[d].query)
        /\ calls[c].places # calls[d].places
        /\ calls[c].places # <<>> /\ calls[d].places # <<>>
        /\ KeyFor(calls[d].query) \in DOMAIN searchCache
        /\ searchCache[KeyFor(calls[d].query)] = [data |-> calls[d].places, timestamp |-> now]
        /\ now > 0

\* C15: a step that is no step of an invocation, of the clock or of the
\* offline toggle (a clearCache) leaves the cache without entries and the cache
\* directory without files; an empty cache stays empty until a search
\* succeeds, and a search made on an empty cache goes to the network whatever
\* its key.
C15_ClearCacheEmptiesAll ==
    [][/\ (calls' = calls /\ now' = now /\ offlineMode' = offlineMode)
            => (DOMAIN searchCache' = {} /\ cacheFiles' = {})
       /\ (DOMAIN searchCache = {} /\ \A c \in Calls : ~SearchSucceeds(c))
            => DOMAIN searchCache' = {}
       /\ \A d \in Calls :
            (SearchStarts(d) /\ DOMAIN searchCache = {})
            => calls'[d].pc = "fetch" /\ calls'[d].requests = 1]_vars

\* The cache and its directory are empty; one caller still holds a result it
\* was served from the cache and a search for the same key, made at the
\* present instant within five minutes of the start, is on the network.
C15_Witness ==
    \E c, d \in Calls :
        /\ DOMAIN searchCache = {} /\ cacheFiles = {}
        /\ calls[d].op = "search" /\ calls[d].pc = "returned" /\ calls[d].cause = "hit"
        /\ calls[c].op = "search" /\ calls[c].pc = "fetch"
        /\ KeyFor(calls[c].query) = KeyFor(calls[d].query)
        /\ calls[c].deadline = now + 2000
        /\ now > 0 /\ now < 300000

\* C16: when listing or deleting a cache file fails, the clearCache command
\* still returns: the failure does not leave clearCache, the caller gets a
\* warning and does not announce that the cache was cleared.
C16_ClearFailureIsWarning ==
    \A c \in Calls :
        (calls[c].op = "clearCache" /\ calls[c].cause \in {"readdirSync", "unlinkSync"})
        => (calls[c].pc = "returned" /\ calls[c].value = "warning")

\* C17: when a caller changes the sequence it was given, the cache and the
\* sequences held by the other callers stay as they were.
C17_ResultsAreCopies ==
    [][\A c \in Calls :
          (/\ calls[c].op = "search" /\ calls[c].pc = "returned"
           /\ calls'[c].pc = "returned"
           /\ calls'[c].places # calls[c].places)
          => /\ searchCache' = searchCache
             /\ \A d \in Calls \ {c} : calls'[d] = calls[d]]_vars

\* Invocation c is a search that returned the fallback result.
FellBack(c) ==
    calls[c].op = "search" /\ calls[c].pc = "returned" /\ calls[c].cause \in FailureCauses

\* The lower-cased, trimmed query of invocation c.
TermOf(c) == trim(toLowerCase(calls[c].query))

NameHas(city, term) == includes(toLowerCase(city.name), term)

DescriptionHas(city, term) == includes(toLowerCase(city.description), term)

\* exact ++ partial for a term: the cities whose name contains it, then the
\* remaining cities whose description contains it, each in list order.
ExactThenPartial(term) ==
    LET IsExact(city)   == NameHas(city, term)
        IsPartial(city) == ~NameHas(city, term) /\ DescriptionHas(city, term)
    IN  SelectSeq(majorIndianCities, IsExact) \o SelectSeq(majorIndianCities, IsPartial)

\* C18: for a non-empty term that matches a city, the fallback result is the
\* first 8 of exact ++ partial: no city twice, every city matched by name
\* before every city matched by description only.
C18_ExactBeforePartial ==
    \A c \in Calls :
        (FellBack(c) /\ TermOf(c) # <<>> /\ Len(ExactThenPartial(TermOf(c))) > 0)
        => LET all    == ExactThenPartial(TermOf(c))
               places == calls[c].places
           IN  /\ places = SubSeq(all, 1, Min(8, Len(all)))
               /\ \A i, j \in 1..Len(places) : i # j => places[i] # places[j]
               /\ \A i, j \in 1..Len(places) :
                     (NameHas(places[i], TermOf(c)) /\ ~NameHas(places[j], TermOf(c))) => i < j

\* The fallback result for "al": Bengaluru, matched by name, stands before
\* Delhi, which precedes it in the list and is matched by description.
C18_Witness ==
    \E c \in Calls :
        /\ FellBack(c) /\ TermOf(c) = <<"a","l">>
        /\ Len(calls[c].places) = 5
        /\ calls[c].places[1].name = <<"B","e","n","g","a","l","u","r","u",","," ","I","n","d","i","a">>
        /\ calls[c].places[2].name = <<"D","e","l","h","i",","," ","I","n","d","i","a">>

\* C19: for an empty query the fallback result is exactly the first 8 cities of
\* the list of 12, in the declared order.
C19_EmptyQueryFirstEight ==
    \A c \in Calls :
        (FellBack(c) /\ TermOf(c) = <<>>)
        => /\ Len(majorIndianCities) = 12
           /\ Len(calls[c].places) = 8
           /\ \A i \in 1..8 : calls[c].places[i] = majorIndianCities[i]

\* The fallback result for the empty query: Delhi first, Ahmedabad eighth.
C19_Witness ==
    \E c \in Calls :
        /\ FellBack(c) /\ calls[c].query = <<>>
        /\ Len(calls[c].places) = 8
        /\ calls[c].places[1].name = <<"D","e","l","h","i",","," ","I","n","d","i","a">>
        /\ calls[c].places[8].name = <<"A","h","m","e","d","a","b","a","d",","," ","I","n","d","i","a">>

\* C20: a fallback result has between 1 and 8 places; for a non-empty term that
\* matches no name and no description it is exactly the first 4 cities of the
\* list, in the declared order.
C20_NeverEmpty ==
    \A c \in Calls :
        FellBack(c)
        => /\ Len(calls[c].places) >= 1 /\ Len(calls[c].places) <= 8
           /\ (TermOf(c) # <<>> /\ Len(ExactThenPartial(TermOf(c))) = 0)
                 => /\ Len(calls[c].places) = 4
                    /\ \A i \in 1..4 : calls[c].places[i] = majorIndianCities[i]

\* The fallback result for "zzz", which matches nothing: Delhi to Chennai.
C20_Witness ==
    \E c \in Calls :
        /\ FellBack(c) /\ calls[c].query = <<"z","z","z">>
        /\ Len(calls[c].places) = 4
        /\ calls[c].places[4].name = <<"C","h","e","n","n","a","i",","," ","I","n","d","i","a">>

\* The city names the biased query is checked against.
KnownCityNames ==
    {<<"d","e","l","h","i">>, <<"m","u","m","b","a","i">>, <<"c","h","e","n","n","a","i">>, <<"k","o","l","k","a","t","a">>, <<"b","a","n","g","a","l","o","r","e">>, <<"h","y","d","e","r","a","b","a","d">>, <<"p","u","n","e">>,
     <<"a","h","m","e","d","a","b","a","d">>, <<"j","a","i","p","u","r">>, <<"l","u","c","k","n","o","w">>, <<"b","e","n","g","a","l","u","r","u">>, <<"g","u","r","g","a","o","n">>, <<"n","o","i","d","a">>, <<"k","o","c","h","i">>,
     <<"g","o","a">>, <<"c","h","a","n","d","i","g","a","r","h">>, <<"i","n","d","o","r","e">>, <<"b","h","o","p","a","l">>}

\* C21: the query a search sends to the geocoder is the query itself when its
\* lower-cased form contains a known city name or "india", or when it has at
\* most 2 characters, and the query followed by ", India" otherwise.
C21_BiasedQuery ==
    \A c \in Calls :
        (calls[c].op = "search" /\ calls[c].requests = 1)
        => LET q     == calls[c].query
               lower == toLowerCase(q)
           IN  IF \/ \E city \in KnownCityNames : includes(lower, city)
                  \/ includes(lower, <<"i","n","d","i","a">>)
                  \/ Len(q) <= 2
               THEN calls[c].request = q
               ELSE calls[c].request = q \o <<","," ","I","n","d","i","a">>

\* Requests were sent for " AL ", with the suffix, and for "Mumbai", without.
C21_Witness ==
    \E c, d \in Calls :
        /\ calls[c].op = "search" /\ calls[c].requests = 1
        /\ calls[c].query = <<" ","A","L"," ">> /\ calls[c].request = <<" ","A","L"," ",","," ","I","n","d","i","a">>
        /\ calls[d].op = "search" /\ calls[d].requests = 1
        /\ calls[d].query = <<"M","u","m","b","a","i">> /\ calls[d].request = <<"M","u","m","b","a","i">>

\* C22: every invocation of nearbyPlaces returns exactly 8 places and issues
\* no network request, whatever its input and whatever the offline flag.
C22_NearbyAlwaysEight ==
    \A c \in Calls :
        (calls[c].op = "nearby" /\ calls[c].pc # "idle")
        => /\ calls[c].pc = "returned"
           /\ calls[c].value = "places"
           /\ Len(calls[c].places) = 8
           /\ calls[c].requests = 0

C25_KindNeverEmpty ==
    \A c \in Calls :
        (calls[c].pc = "returned" /\ calls[c].value = "places")
        => \A i \in DOMAIN calls[c].places :
              /\ calls[c].places[i].type # <<>>
              /\ calls[c].places[i].type # Undefined

\* A route call that ended in the locally computed estimate.
EstimatedRoute(c) ==
    /\ calls[c].op = "route" /\ calls[c].pc = "returned"
    /\ calls[c].value = "route" /\ calls[c].cause \in FailureCauses

\* C24: the geometry of an estimated route has exactly 3 pairs, the first
\* (start.lng, start.lat), the last (end.lng, end.lat) and the middle one within
\* 0.005 degrees per axis of the mean of start and end; for driving, walking
\* and cycling its duration is haversine / speed * 60 * trafficFactor rounded to
\* the nearest minute, with speed 40, 4, 12 km/h and trafficFactor 1.3 for
\* driving and 1.0 otherwise.
C24_EstimateShape ==
    \A c \in Calls :
        EstimatedRoute(c)
        => LET start  == calls[c].from
               end    == calls[c].to
               mode   == calls[c].mode
               coords == calls[c].route.geometry.coordinates
               metres == calculateHaversineDistance(start.lat, start.lng, end.lat, end.lng)
               speed  == CASE mode = <<"d","r","i","v","i","n","g">> -> 40
                           [] mode = <<"w","a","l","k","i","n","g">> -> 4
                           [] mode = <<"c","y","c","l","i","n","g">> -> 12
                           [] OTHER -> 1
               tenths == IF mode = <<"d","r","i","v","i","n","g">> THEN 13 ELSE 10
               \* minutes = num / den, before rounding
               num    == metres * 6 * tenths
               den    == speed * 1000
           IN  /\ Len(coords) = 3
               /\ coords[1] = <<start.lng, start.lat>>
               /\ coords[3] = <<end.lng, end.lat>>
               /\ Abs(coords[2][1] - (start.lng + end.lng) \div 2) <= 50
               /\ Abs(coords[2][2] - (start.lat + end.lat) \div 2) <= 50
               /\ mode \in {<<"d","r","i","v","i","n","g">>, <<"w","a","l","k","i","n","g">>, <<"c","y","c","l","i","n","g">>}
                  => \E d \in {num \div den, num \div den + 1} :
                        /\ 2 * d * den - den <= 2 * num
                        /\ 2 * num < 2 * d * den + den
                        /\ calls[c].route.duration = numberToString(d) \o <<" ","m","i","n">>

\* The estimate for driving from (0, 0) to (0, 1) takes 217 minutes and bends
\* at a middle pair displaced by the largest and the smallest random offset.
C24_Witness ==
    /\ EstimatedRoute(1)
    /\ calls[1].from = Point(0, 0) /\ calls[1].to = Point(0, 10000)
    /\ calls[1].mode = <<"d","r","i","v","i","n","g">>
    /\ calls[1].route.duration = <<"2","1","7"," ","m","i","n">>
    /\ calls[1].route.geometry.coordinates[2] = <<5000 + 49, 0 - 50>>

\* Invocation c is, or in this step becomes, a call for directions or for
\* nearby places, and the step is one of its own.
RouteOrNearbyStep(c) ==
    /\ calls'[c] # calls[c]
    /\ calls[c].op \in {"route", "nearby"} \/ calls'[c].op \in {"route", "nearby"}

C27_AtMostEight ==
    /\ \A key \in DOMAIN searchCache :
          LET data == searchCache[key].data
          IN  /\ Len(data) <= 8
              /\ \A i, j \in 1..Len(data) :
                    i < j => ~(OutOfRegion(data[i]) /\ InRegion(data[j]))
    /\ \A c \in Calls :
          (calls[c].op = "search" /\ calls[c].pc = "returned")
          => Len(calls[c].places) <= 8

\* The provider answered with more than 8 candidates, some in the region and
\* some not; 8 of them were returned and cached.
C27_Witness ==
    /\ ProviderResult(1)
    /\ Len(calls[1].data.items) > 8
    /\ Len(calls[1].places) = 8
    /\ <<"i","n","d","i","a">> \in DOMAIN searchCache
    /\ searchCache[<<"i","n","d","i","a">>].data = calls[1].places
    /\ InRegion(calls[1].places[1]) /\ OutOfRegion(calls[1].places[8])

\* The cache holds an entry for key that is five minutes old or older.
ExpiredEntry(key) ==
    /\ key \in DOMAIN searchCache
    /\ now - searchCache[key].timestamp >= 300000

\* C28: a search whose key has an expired entry and whose provider call fails
\* returns getIndiaFallbackLocations(query), not the expired sequence, and
\* leaves the entry as it was; an expired entry changes only when a search for
\* its key succeeds, which replaces it by that result, or when clearCache
\* removes it.
C28_ExpiredEntryNotServed ==
    [][/\ \A c \in Calls :
            (SearchFails(c) /\ ExpiredEntry(KeyFor(calls[c].query)))
            => LET key == KeyFor(calls[c].query)
               IN  /\ calls'[c].value = "places"
                   /\ calls'[c].places = FallbackFor(calls[c].query)
                   /\ calls'[c].places # searchCache[key].data
                   /\ key \in DOMAIN searchCache'
                   /\ searchCache'[key] = searchCache[key]
       /\ \A key \in DOMAIN searchCache :
            (/\ ExpiredEntry(key)
             /\ key \in DOMAIN searchCache' => searchCache'[key] # searchCache[key])
            => \/ \E c \in Calls :
                    /\ SearchSucceeds(c)
                    /\ KeyFor(calls[c].query) = key
                    /\ key \in DOMAIN searchCache'
                    /\ searchCache'[key] = [data |-> calls'[c].places, timestamp |-> now]
               \/ DOMAIN searchCache' = {} /\ calls' = calls]_vars

\* A search for a key with an expired, non-empty entry has failed and returned
\* the gazetteer's records; the expired entry is still in the cache.
C28_Witness ==
    \E c \in Calls :
        /\ calls[c].op = "search" /\ calls[c].pc = "returned"
        /\ calls[c].cause \in FailureCauses
        /\ ExpiredEntry(KeyFor(calls[c].query))
        /\ searchCache[KeyFor(calls[c].query)].data # <<>>
        /\ calls[c].places = FallbackFor(calls[c].query)

\* C29: once clearCache has returned, the cache holds no entry produced by a
\* search that was started before it: with every search started before
\* clearCache, the cache stays empty from then on.
C29_NoEntryAfterClear == cacheFiles = {} => DOMAIN searchCache = {}

\* Invocation c, a search, returns in this step.
SearchReturns(c) ==
    /\ calls[c].pc # "returned"
    /\ calls'[c].op = "search" /\ calls'[c].pc = "returned"

\* C30: a search returns an empty sequence only when the provider answered
\* successfully with an empty array, in this call, which then caches the empty
\* result like any other, or in the call whose fresh entry is being hit; a
\* search for a key with a fresh empty entry returns empty without a request;
\* a search that fails never returns an empty sequence.
C30_EmptyOnlyFromProvider ==
    [][\A c \in Calls :
          /\ (SearchReturns(c) /\ calls'[c].places = <<>>)
             => LET key == KeyFor(calls'[c].query)
                IN  \/ /\ calls[c].pc = "json" /\ calls[c].httpOk
                       /\ calls'[c].cause = "provider"
                       /\ calls'[c].data = ArrayBody(<<>>)
                       /\ key \in DOMAIN searchCache'
                       /\ searchCache'[key] = [data |-> <<>>, timestamp |-> now]
                    \/ /\ calls[c].pc = "idle"
                       /\ calls'[c].cause = "hit" /\ calls'[c].requests = 0
                       /\ FreshEntry(key)
                       /\ searchCache[key].data = <<>>
          /\ (/\ SearchStarts(c)
              /\ FreshEntry(KeyFor(calls'[c].query))
              /\ searchCache[KeyFor(calls'[c].query)].data = <<>>)
             => ServedFromCache(c, <<>>)
          /\ SearchFails(c) => calls'[c].places # <<>>]_vars

=============================================================================
